---- MODULE Spec2Model ----
(***************************************************************************)
(* Static analysis core of the Clarity toolchain: the contract analysis    *)
(* record (analysis/types.rs), the two trait compliance passes             *)
(* (analysis/trait_checker) and the six asset/token handlers of the type   *)
(* checker (analysis/type_checker/natives/assets.rs), and the pass that    *)
(* numbers the expressions of a parsed contract                            *)
(* (ast/expression_identifier).                                            *)
(***************************************************************************)
EXTENDS Integers, Sequences, FiniteSets, TLC

VARIABLES
    analysis_db,        \* AnalysisDatabase: contract identifier -> stored ContractAnalysis
    contract_analysis,  \* the ContractAnalysis of the contract under analysis
    pass,               \* the analysis pass that ran last on contract_analysis, with its outcome
    checker,            \* TypeChecker: contract_context (declared assets) and cost_track
    handled,            \* the asset/token handler that ran last, with its outcome
    contract_ast,       \* ContractAST: the parsed expressions, and the outcome of the id pass
    iterator            \* the ExpressionsIterator over contract_analysis, with what it yielded

vars == <<analysis_db, contract_analysis, pass, checker, handled, contract_ast, iterator>>

traitVars == <<analysis_db, contract_analysis, pass>>
assetVars == <<checker, handled>>
astVars == <<contract_ast, iterator>>

(***************************************************************************)
(* Bounds of the model.                                                    *)
(***************************************************************************)
MaxBuffLen == 2         \* buffer types are (buff 1) .. (buff MaxBuffLen)
MaxArgs == 2            \* parameters of a function signature
MaxEntries == 3         \* catalog entries of the record under analysis
MaxBudget == 3          \* limit of the cost tracker

(***************************************************************************)
(* Option<T>.                                                              *)
(***************************************************************************)
None == [some |-> FALSE]
Some(v) == [some |-> TRUE, val |-> v]

(***************************************************************************)
(* BTreeMap<K, V>: a function on its key set.                              *)
(***************************************************************************)
EmptyMap == [k \in {} |-> None]
insert(m, k, v) == [x \in (DOMAIN m) \cup {k} |-> IF x = k THEN v ELSE m[x]]
get(m, k) == IF k \in DOMAIN m THEN Some(m[k]) ELSE None

(***************************************************************************)
(* ClarityName and QualifiedContractIdentifier, each listed in its sorted  *)
(* order (the order BTreeMap and BTreeSet iterate in).                     *)
(***************************************************************************)
FunctionNames == <<"get-1", "get-2">>
TraitNames == <<"trait-1", "trait-a">>
ContractIdentifiers == <<"defining", "nested", "target">>

Range(s) == {s[i] : i \in DOMAIN s}
\* the members of set S in the order of the sorted listing `sorted`
Sorted(sorted, S) == SelectSeq(sorted, LAMBDA x : x \in S)

(***************************************************************************)
(* TypeSignature.                                                          *)
(***************************************************************************)
NoType == [k |-> "NoType"]
UIntType == [k |-> "UIntType"]
IntType == [k |-> "IntType"]
BoolType == [k |-> "BoolType"]
PrincipalType == [k |-> "PrincipalType"]
BufferType(n) == [k |-> "BufferType", len |-> n]
OptionalType(t) == [k |-> "OptionalType", inner |-> t]
ResponseType(o, e) == [k |-> "ResponseType", ok |-> o, err |-> e]
TraitReferenceType(name) == [k |-> "TraitReferenceType", name |-> name]

is_no_type(t) == t.k = "NoType"

\* TypeSignature::admits_type: structural admission, self admits other.
RECURSIVE admits_type(_, _)
admits_type(self, other) ==
    CASE self.k = "OptionalType" ->
            /\ other.k = "OptionalType"
            /\ (is_no_type(other.inner) \/ admits_type(self.inner, other.inner))
      [] self.k = "ResponseType" ->
            /\ other.k = "ResponseType"
            /\ IF is_no_type(other.ok) THEN admits_type(self.err, other.err)
               ELSE IF is_no_type(other.err) THEN admits_type(self.ok, other.ok)
               ELSE admits_type(self.err, other.err) /\ admits_type(self.ok, other.ok)
      [] self.k = "BufferType" ->
            other.k = "BufferType" /\ other.len <= self.len
      [] OTHER -> other = self

(***************************************************************************)
(* FunctionType, FunctionSignature, FunctionArg, TraitIdentifier.          *)
(***************************************************************************)
FunctionArg(t) == [signature |-> t]
\* FunctionSignature { args: Vec<TypeSignature>, returns }
FunctionSignature(args, returns) == [args |-> args, returns |-> returns]
\* FunctionType::Fixed(FixedFunction { args: Vec<FunctionArg>, returns })
Fixed(args, returns) ==
    [k |-> "Fixed", args |-> [i \in DOMAIN args |-> FunctionArg(args[i])], returns |-> returns]
Variadic(t, returns) == [k |-> "Variadic", args |-> <<FunctionArg(t)>>, returns |-> returns]
UnionArgs(ts, returns) ==
    [k |-> "UnionArgs", args |-> [i \in DOMAIN ts |-> FunctionArg(ts[i])], returns |-> returns]
ArithmeticVariadic == [k |-> "ArithmeticVariadic", args |-> <<>>, returns |-> NoType]

TraitIdentifier(contract, name) == [name |-> name, contract_identifier |-> contract]

\* every TraitIdentifier in the order of its derived Ord (name, then contract)
TraitIdentifiers ==
    LET nc == Len(ContractIdentifiers)
    IN  [i \in 1..(Len(TraitNames) * nc) |->
            TraitIdentifier(ContractIdentifiers[((i - 1) % nc) + 1],
                            TraitNames[((i - 1) \div nc) + 1])]

(***************************************************************************)
(* CheckResult<()>: Ok(()) or the CheckErrors variant with its payload.    *)
(***************************************************************************)
Ok == [kind |-> "Ok", a |-> "", b |-> ""]
TraitReferenceUnknown(name) == [kind |-> "TraitReferenceUnknown", a |-> name, b |-> ""]
BadTraitImplementation(trait_name, func_name) ==
    [kind |-> "BadTraitImplementation", a |-> trait_name, b |-> func_name]

(***************************************************************************)
(* ContractAnalysis (analysis/types.rs).                                   *)
(***************************************************************************)
new(contract_identifier, expressions) ==
    [ contract_identifier      |-> contract_identifier,
      expressions              |-> expressions,
      private_function_types   |-> EmptyMap,
      public_function_types    |-> EmptyMap,
      read_only_function_types |-> EmptyMap,
      defined_traits           |-> EmptyMap,
      referenced_traits        |-> EmptyMap,
      implemented_traits       |-> {},
      top_level_expression_sorting |-> Some(<<>>),
      fungible_tokens          |-> {},
      non_fungible_tokens      |-> EmptyMap ]

add_read_only_function(self, name, function_type) ==
    [self EXCEPT !.read_only_function_types = insert(@, name, function_type)]
add_public_function(self, name, function_type) ==
    [self EXCEPT !.public_function_types = insert(@, name, function_type)]
add_private_function(self, name, function_type) ==
    [self EXCEPT !.private_function_types = insert(@, name, function_type)]
add_non_fungible_token(self, name, nft_type) ==
    [self EXCEPT !.non_fungible_tokens = insert(@, name, nft_type)]
add_fungible_token(self, name) ==
    [self EXCEPT !.fungible_tokens = @ \cup {name}]
add_defined_trait(self, name, function_types) ==
    [self EXCEPT !.defined_traits = insert(@, name, function_types)]
add_implemented_trait(self, trait_identifier) ==
    [self EXCEPT !.implemented_traits = @ \cup {trait_identifier}]
\* use-trait: the import that fills referenced_traits
add_referenced_trait(self, name, trait_identifier) ==
    [self EXCEPT !.referenced_traits = insert(@, name, trait_identifier)]

\* mutant: the read-only catalog also satisfies a required method
get_public_or_read_only_function_type(self, name) ==
    IF name \in DOMAIN self.public_function_types
    THEN get(self.public_function_types, name)
    ELSE get(self.read_only_function_types, name)
get_public_function_type(self, name) == get(self.public_function_types, name)
get_read_only_function_type(self, name) == get(self.read_only_function_types, name)
get_private_function(self, name) == get(self.private_function_types, name)
get_defined_trait(self, name) == get(self.defined_traits, name)
get_referenced_trait(self, name) == get(self.referenced_traits, name)

\* AnalysisDatabase::load_contract
load_contract(db, contract_identifier) == get(db, contract_identifier)


(***************************************************************************)
(* What a pass did, in order: the observable steps of its control flow.    *)
(* Each step names the implemented trait (its TraitIdentifier) it is for.   *)
(*   load      the declaring contract of an implemented trait is loaded    *)
(*   function  a required method is looked up in the public catalog        *)
(*   count     the argument counts of a fixed function are compared        *)
(*   arg       the parameter pair at position pos is compared              *)
(*   returns   the return types are compared                               *)
(*   comply    check_trait_compliance is called (TraitChecker)             *)
(***************************************************************************)
Step(ev, trait, func, pos) == [ev |-> ev, trait |-> trait, func |-> func, pos |-> pos]
Outcome(res, trace) == [res |-> res, trace |-> trace]

(***************************************************************************)
(* PostTypeCheckingTraitChecker::run (trait_checker/post_type_check.rs).   *)
(***************************************************************************)
\* mutant: two trait references are compared by their local names
arg_accepted_by_alias(contract_defining_trait, analysis, expected_arg, arg) ==
    IF expected_arg.k = "TraitReferenceType" /\ arg.signature.k = "TraitReferenceType"
    THEN expected_arg.name = arg.signature.name
    ELSE admits_type(expected_arg, arg.signature)

\* mutant: a required trait reference is compared only with a trait reference
arg_accepted_unless_both_traits(contract_defining_trait, analysis, expected_arg, arg) ==
    IF expected_arg.k = "TraitReferenceType"
    THEN IF arg.signature.k = "TraitReferenceType"
         THEN LET expected_trait_id ==
                      get_referenced_trait(contract_defining_trait, expected_arg.name)
                  actual_trait_id == get_referenced_trait(analysis, arg.signature.name)
              IN  /\ expected_trait_id.some
                  /\ actual_trait_id.some
                  /\ actual_trait_id = expected_trait_id
         ELSE TRUE
    ELSE admits_type(expected_arg, arg.signature)

\* mutant: the realized type must admit the required one
arg_accepted_reversed(contract_defining_trait, analysis, expected_arg, arg) ==
    IF expected_arg.k = "TraitReferenceType" /\ arg.signature.k = "TraitReferenceType"
    THEN LET expected_trait_id == get_referenced_trait(contract_defining_trait, expected_arg.name)
             actual_trait_id == get_referenced_trait(analysis, arg.signature.name)
         IN  /\ expected_trait_id.some
             /\ actual_trait_id.some
             /\ actual_trait_id = expected_trait_id
    ELSE admits_type(arg.signature, expected_arg)

\* mutant: two trait references must also be written with the same local name
arg_accepted_same_alias_too(contract_defining_trait, analysis, expected_arg, arg) ==
    IF expected_arg.k = "TraitReferenceType" /\ arg.signature.k = "TraitReferenceType"
    THEN LET expected_trait_id == get_referenced_trait(contract_defining_trait, expected_arg.name)
             actual_trait_id == get_referenced_trait(analysis, arg.signature.name)
         IN  /\ expected_trait_id.some
             /\ actual_trait_id.some
             /\ actual_trait_id = expected_trait_id
             /\ expected_arg.name = arg.signature.name
    ELSE admits_type(expected_arg, arg.signature)

\* lines 49-64: whether the pair (expected_arg, arg) passes the match
arg_accepted(contract_defining_trait, analysis, expected_arg, arg) ==
    IF expected_arg.k = "TraitReferenceType" /\ arg.signature.k = "TraitReferenceType"
    THEN LET expected_trait_id == get_referenced_trait(contract_defining_trait, expected_arg.name)
             actual_trait_id == get_referenced_trait(analysis, arg.signature.name)
         IN  /\ expected_trait_id.some
             /\ actual_trait_id.some
             /\ actual_trait_id = expected_trait_id
    ELSE admits_type(expected_arg, arg.signature)

\* lines 47-65: the first position of the zip that is rejected, 0 when none is
RECURSIVE first_rejected_arg(_, _, _, _, _)
first_rejected_arg(contract_defining_trait, analysis, expected_args, func_args, i) ==
    IF i > Len(expected_args) \/ i > Len(func_args) THEN 0
    ELSE IF ~arg_accepted(contract_defining_trait, analysis, expected_args[i], func_args[i])
    THEN i
    ELSE first_rejected_arg(contract_defining_trait, analysis, expected_args, func_args, i + 1)

\* mutant: only a function with too few arguments is rejected
arg_count_fewer(func, expected_sig) == Len(func.args) < Len(expected_sig.args)

\* line 44: the argument counts differ
arg_count_differs(func, expected_sig) == Len(func.args) # Len(expected_sig.args)

\* mutant: the realized return type must admit the required one
returns_admitted_reversed(func, expected_sig) == admits_type(func.returns, expected_sig.returns)

\* line 67: the required return type admits the realized one
returns_admitted(func, expected_sig) == admits_type(expected_sig.returns, func.returns)

\* mutant: the trait named by a trait-typed parameter is loaded to be compared too
check_function_into_reference(contract_defining_trait, analysis, trait_identifier, func_name, expected_sig) ==
    LET found == get_public_function_type(analysis, func_name)
        bad == BadTraitImplementation(trait_identifier.name, func_name)
        looked == <<Step("function", trait_identifier, func_name, 0)>>
    IN  IF found.some /\ found.val.k = "Fixed"
        THEN LET func == found.val
                 counted == looked \o <<Step("count", trait_identifier, func_name, 0)>>
             IN  IF arg_count_differs(func, expected_sig)
                 THEN Outcome(bad, counted)
                 ELSE LET r == first_rejected_arg(contract_defining_trait, analysis,
                                                  expected_sig.args, func.args, 1)
                          last == IF r = 0 THEN Len(func.args) ELSE r
                          referenced(i) ==
                              get_referenced_trait(contract_defining_trait, expected_sig.args[i].name)
                          compared == counted \o
                              [i \in 1..last |->
                                  IF expected_sig.args[i].k = "TraitReferenceType"
                                         /\ referenced(i).some
                                  THEN Step("load", referenced(i).val, "", 0)
                                  ELSE Step("arg", trait_identifier, func_name, i)]
                          returned == compared \o
                              <<Step("returns", trait_identifier, func_name, 0)>>
                      IN  IF r # 0 THEN Outcome(bad, compared)
                          ELSE IF ~returns_admitted(func, expected_sig)
                          THEN Outcome(bad, returned)
                          ELSE Outcome(Ok, returned)
        ELSE Outcome(bad, looked)

\* lines 42-74: one (func_name, expected_sig) of the trait
check_function(contract_defining_trait, analysis, trait_identifier, func_name, expected_sig) ==
    LET found == get_public_function_type(analysis, func_name)
        bad == BadTraitImplementation(trait_identifier.name, func_name)
        looked == <<Step("function", trait_identifier, func_name, 0)>>
    IN  IF found.some /\ found.val.k = "Fixed"
        THEN LET func == found.val
                 counted == looked \o <<Step("count", trait_identifier, func_name, 0)>>
             IN  IF arg_count_differs(func, expected_sig)
                 THEN Outcome(bad, counted)
                 ELSE LET r == first_rejected_arg(contract_defining_trait, analysis,
                                                  expected_sig.args, func.args, 1)
                          last == IF r = 0 THEN Len(func.args) ELSE r
                          compared == counted \o
                              [i \in 1..last |-> Step("arg", trait_identifier, func_name, i)]
                          returned == compared \o
                              <<Step("returns", trait_identifier, func_name, 0)>>
                      IN  IF r # 0 THEN Outcome(bad, compared)
                          ELSE IF ~returns_admitted(func, expected_sig)
                          THEN Outcome(bad, returned)
                          ELSE Outcome(Ok, returned)
        ELSE Outcome(bad, looked)

\* lines 41-75: trait_sig.iter(), from the i-th key on, stopping at the first error
RECURSIVE check_functions(_, _, _, _, _, _)
check_functions(contract_defining_trait, analysis, trait_identifier, trait_sig, names, i) ==
    IF i > Len(names) THEN Outcome(Ok, <<>>)
    ELSE LET one == check_function(contract_defining_trait, analysis, trait_identifier,
                                   names[i], trait_sig[names[i]])
         IN  IF one.res # Ok THEN one
             ELSE LET rest == check_functions(contract_defining_trait, analysis,
                                              trait_identifier, trait_sig, names, i + 1)
                  IN  Outcome(rest.res, one.trace \o rest.trace)

\* mutant: an implemented trait that does not resolve is skipped
check_implemented_trait_if_known(analysis, db, trait_identifier) ==
    LET trait_name == trait_identifier.name
        loaded == load_contract(db, trait_identifier.contract_identifier)
        here == <<Step("load", trait_identifier, "", 0)>>
    IN  IF ~loaded.some THEN Outcome(Ok, here)
        ELSE LET contract_defining_trait == loaded.val
                 trait_sig == get_defined_trait(contract_defining_trait, trait_name)
             IN  IF ~trait_sig.some THEN Outcome(Ok, here)
                 ELSE LET r == check_functions(contract_defining_trait, analysis,
                                   trait_identifier, trait_sig.val,
                                   Sorted(FunctionNames, DOMAIN trait_sig.val), 1)
                      IN  Outcome(r.res, here \o r.trace)

\* lines 35-75: the body of the loop for one trait_identifier
check_implemented_trait(analysis, db, trait_identifier) ==
    LET trait_name == trait_identifier.name
        loaded == load_contract(db, trait_identifier.contract_identifier)
        here == <<Step("load", trait_identifier, "", 0)>>
    IN  IF ~loaded.some THEN Outcome(TraitReferenceUnknown(trait_name), here)
        ELSE LET contract_defining_trait == loaded.val
                 trait_sig == get_defined_trait(contract_defining_trait, trait_name)
             IN  IF ~trait_sig.some THEN Outcome(TraitReferenceUnknown(trait_name), here)
                 ELSE LET r == check_functions(contract_defining_trait, analysis,
                                   trait_identifier, trait_sig.val,
                                   Sorted(FunctionNames, DOMAIN trait_sig.val), 1)
                      IN  Outcome(r.res, here \o r.trace)

\* lines 33-77: the loop over implemented_traits, from the i-th on
RECURSIVE check_implemented_traits(_, _, _, _)
check_implemented_traits(analysis, db, ids, i) ==
    IF i > Len(ids) THEN Outcome(Ok, <<>>)
    ELSE LET one == check_implemented_trait(analysis, db, ids[i])
         IN  IF one.res # Ok THEN one
             ELSE LET rest == check_implemented_traits(analysis, db, ids, i + 1)
                  IN  Outcome(rest.res, one.trace \o rest.trace)

PostTypeCheckingTraitChecker_run(analysis, db) ==
    check_implemented_traits(analysis, db,
        Sorted(TraitIdentifiers, analysis.implemented_traits), 1)

(***************************************************************************)
(* TraitChecker::run (trait_checker/mod.rs).  check_trait_compliance is    *)
(* the record's own structural check; `failing` is the set of implemented  *)
(* traits it rejects.                                                      *)
(***************************************************************************)
check_trait_compliance(analysis, trait_identifier, trait_definition, failing) ==
    IF trait_identifier \in failing
    THEN BadTraitImplementation(trait_identifier.name, "")
    ELSE Ok

\* lines 35-43: the body of the loop for one trait_identifier
resolve_implemented_trait(analysis, db, trait_identifier, failing) ==
    LET trait_name == trait_identifier.name
        loaded == load_contract(db, trait_identifier.contract_identifier)
        here == <<Step("load", trait_identifier, "", 0)>>
    IN  IF ~loaded.some THEN Outcome(TraitReferenceUnknown(trait_name), here)
        ELSE LET trait_definition == get_defined_trait(loaded.val, trait_name)
             IN  IF ~trait_definition.some
                 THEN Outcome(TraitReferenceUnknown(trait_name), here)
                 ELSE Outcome(check_trait_compliance(analysis, trait_identifier,
                                                     trait_definition.val, failing),
                              here \o <<Step("comply", trait_identifier, "", 0)>>)

\* lines 33-45: the loop over implemented_traits, from the i-th on
RECURSIVE resolve_implemented_traits(_, _, _, _, _)
resolve_implemented_traits(analysis, db, ids, i, failing) ==
    IF i > Len(ids) THEN Outcome(Ok, <<>>)
    ELSE LET one == resolve_implemented_trait(analysis, db, ids[i], failing)
         IN  IF one.res # Ok THEN one
             ELSE LET rest == resolve_implemented_traits(analysis, db, ids, i + 1, failing)
                  IN  Outcome(rest.res, one.trace \o rest.trace)

TraitChecker_run(analysis, db, failing) ==
    resolve_implemented_traits(analysis, db,
        Sorted(TraitIdentifiers, analysis.implemented_traits), 1, failing)


(***************************************************************************)
(* The inputs of the trait compliance model.                               *)
(***************************************************************************)
\* parameter types: principal, the buffers, and <trait-1>, <trait-a>
ArgTypes ==
    {PrincipalType} \cup {BufferType(n) : n \in 1..MaxBuffLen}
        \cup {TraitReferenceType(TraitNames[i]) : i \in DOMAIN TraitNames}
\* parameter lists: principals followed by one parameter of any type
ArgLists ==
    {<<>>} \cup {[i \in 1..n |-> IF i = n THEN t ELSE PrincipalType] :
                    n \in 1..MaxArgs, t \in ArgTypes}
\* return types: (response (buff n) uint)
ReturnTypes == {ResponseType(BufferType(n), UIntType) : n \in 1..MaxBuffLen}

BaseArgs == <<PrincipalType>>
BaseReturns == ResponseType(BufferType(1), UIntType)
\* signatures: the base signature with its parameter list or its return type varied
Signatures ==
    {FunctionSignature(a, BaseReturns) : a \in ArgLists}
        \cup {FunctionSignature(BaseArgs, r) : r \in ReturnTypes}
FunctionTypes ==
    {Fixed(sig.args, sig.returns) : sig \in Signatures}
        \cup {Variadic(PrincipalType, BaseReturns),
              UnionArgs(<<PrincipalType, UIntType>>, BaseReturns),
              ArithmeticVariadic}

\* trait definitions: one required method, or two
TraitDefinitions ==
    {[n \in {"get-1"} |-> sig] : sig \in Signatures}
        \cup {[n \in {"get-1", "get-2"} |-> FunctionSignature(BaseArgs, BaseReturns)]}

\* the trait identities a use-trait may import
ImportedTraits == {TraitIdentifier("nested", "trait-a"), TraitIdentifier("defining", "trait-a")}
\* the trait identities an impl-trait may name
ImplementableTraits ==
    {TraitIdentifier("defining", "trait-1"), TraitIdentifier("nested", "trait-a")}
\* the public functions a contract may define: get-1 of any type, get-2 of the base type
PublicFunctions ==
    {<<"get-1", ft>> : ft \in FunctionTypes} \cup {<<"get-2", Fixed(BaseArgs, BaseReturns)>>}

\* number of entries of a record's catalogs
Entries(analysis) ==
    Cardinality(DOMAIN analysis.private_function_types)
        + Cardinality(DOMAIN analysis.public_function_types)
        + Cardinality(DOMAIN analysis.read_only_function_types)
        + Cardinality(DOMAIN analysis.defined_traits)
        + Cardinality(DOMAIN analysis.referenced_traits)
        + Cardinality(analysis.implemented_traits)

BaseDefinition == [n \in {"get-1"} |-> FunctionSignature(BaseArgs, BaseReturns)]

\* stored records of contract "defining": it defines trait-1 or nothing, and for
\* trait-a it has nothing, the import of nested.trait-a, or a definition of its own
DefiningRecords ==
    LET base == new("defining", <<>>)
        defs == {base} \cup {add_defined_trait(base, "trait-1", d) : d \in TraitDefinitions}
    IN  defs \cup {add_referenced_trait(r, "trait-a", TraitIdentifier("nested", "trait-a")) :
                     r \in defs}
             \cup {add_defined_trait(r, "trait-a", BaseDefinition) : r \in defs}
\* stored record of contract "nested": it defines trait-a
NestedRecord == add_defined_trait(new("nested", <<>>), "trait-a", BaseDefinition)

\* the databases: "nested" stored, and "defining" stored or not
Databases ==
    {[c \in {"defining", "nested"} |-> IF c = "defining" THEN d ELSE NestedRecord] :
        d \in DefiningRecords}
        \cup {[c \in {"nested"} |-> NestedRecord]}

\* databases whose stored traits name each other: trait-1 of "defining" has a
\* parameter of type <trait-a> of "nested", whose parameter is <trait-1> of "defining"
CyclicDefiningRecords ==
    {add_referenced_trait(
         add_defined_trait(new("defining", <<>>), "trait-1",
             [n \in {"get-1"} |-> FunctionSignature(args, BaseReturns)]),
         "trait-a", TraitIdentifier("nested", "trait-a")) :
        args \in {<<TraitReferenceType("trait-a")>>,
                  <<PrincipalType, TraitReferenceType("trait-a")>>}}
CyclicNestedRecord ==
    add_referenced_trait(
        add_defined_trait(new("nested", <<>>), "trait-a",
            [n \in {"get-1"} |-> FunctionSignature(<<TraitReferenceType("trait-1")>>, BaseReturns)]),
        "trait-1", TraitIdentifier("defining", "trait-1"))
CyclicDatabases ==
    {[c \in {"defining", "nested"} |-> IF c = "defining" THEN d ELSE CyclicNestedRecord] :
        d \in CyclicDefiningRecords}

NoPass == [name |-> "none", res |-> Ok, trace |-> <<>>]
PassRun(name, outcome) == [name |-> name, res |-> outcome.res, trace |-> outcome.trace]

(***************************************************************************)
(* The asset/token handlers (analysis/type_checker/natives/assets.rs).     *)
(*                                                                         *)
(* A SymbolicExpression is an atom with its name, or a literal value with  *)
(* the type the type checker infers for it.  TypeResult is Ok(type) or     *)
(* the CheckErrors variant with its payload.                               *)
(***************************************************************************)
Atom(name) == [k |-> "Atom", name |-> name]
LiteralValue(t) == [k |-> "LiteralValue", infers |-> t]

OkType(t) == [kind |-> "Ok", type |-> t]
IncorrectArgumentCount(expected, found) ==
    [kind |-> "IncorrectArgumentCount", expected |-> expected, found |-> found]
BadTokenName == [kind |-> "BadTokenName"]
NoSuchNFT(name) == [kind |-> "NoSuchNFT", name |-> name]
NoSuchFT(name) == [kind |-> "NoSuchFT", name |-> name]
TypeError(expected, found) == [kind |-> "TypeError", expected_type |-> expected, found_type |-> found]
CostBalanceExceeded == [kind |-> "CostBalanceExceeded"]

\* TypeChecker: the contract context holding the declared assets, and the cost tracker
TypeChecker(limit) ==
    [contract_context |-> new("target", <<>>), cost_track |-> [total |-> 0, limit |-> limit]]

\* one step of a handler: what it did (ev), to which argument (pos, 0-based), with what
Did(ev, pos, x) == [ev |-> ev, pos |-> pos, x |-> x]
\* a handler in progress: the cost tracker, the steps done, the failure that ended it
Entered(chk) == [cost_track |-> chk.cost_track, trace |-> <<>>, err |-> None]
Failed(st, here, e) == [st EXCEPT !.trace = Append(@, here), !.err = Some(e)]
Passed(st, here) == [st EXCEPT !.trace = Append(@, here)]

\* check_argument_count(expected, args)?
check_argument_count(st, expected, args) ==
    IF st.err.some THEN st
    ELSE IF Len(args) # expected
         THEN Failed(st, Did("count", 0, expected), IncorrectArgumentCount(expected, Len(args)))
         ELSE Passed(st, Did("count", 0, expected))

\* SymbolicExpression::match_atom
match_atom(expr) == IF expr.k = "Atom" THEN Some(expr.name) ELSE None

\* mutant: an argument 0 that is not an atom is looked up as an unknown name
match_atom_or_unknown_name(st, args) ==
    IF st.err.some THEN st
    ELSE IF match_atom(args[1]).some
         THEN Passed(st, Did("atom", 0, args[1]))
         ELSE Failed(Passed(st, Did("atom", 0, args[1])), Did("lookup", 0, ""), NoSuchFT(""))

\* args[0].match_atom().ok_or(CheckErrors::BadTokenName)?
match_atom_or_bad_token_name(st, args) ==
    IF st.err.some THEN st
    ELSE IF match_atom(args[1]).some
         THEN Passed(st, Did("atom", 0, args[1]))
         ELSE Failed(st, Did("atom", 0, args[1]), BadTokenName)

\* ContractContext::get_nft_type and ContractContext::ft_exists
get_nft_type(contract_context, name) == get(contract_context.non_fungible_tokens, name)
ft_exists(contract_context, name) == name \in contract_context.fungible_tokens

\* checker.contract_context.get_nft_type(asset_name).ok_or(NoSuchNFT(asset_name))?
get_nft_type_or_no_such_nft(st, chk, args) ==
    IF st.err.some THEN st
    ELSE LET asset_name == match_atom(args[1]).val
         IN  IF get_nft_type(chk.contract_context, asset_name).some
             THEN Passed(st, Did("lookup", 0, asset_name))
             ELSE Failed(st, Did("lookup", 0, asset_name), NoSuchNFT(asset_name))

\* if !checker.contract_context.ft_exists(asset_name) { return Err(NoSuchFT(asset_name)) }
ft_exists_or_no_such_ft(st, chk, args) ==
    IF st.err.some THEN st
    ELSE LET asset_name == match_atom(args[1]).val
         IN  IF ft_exists(chk.contract_context, asset_name)
             THEN Passed(st, Did("lookup", 0, asset_name))
             ELSE Failed(st, Did("lookup", 0, asset_name), NoSuchFT(asset_name))

\* TypeSignature::type_size
RECURSIVE type_size(_)
type_size(t) ==
    CASE t.k = "OptionalType" -> 1 + type_size(t.inner)
      [] t.k = "ResponseType" -> 1 + type_size(t.ok) + type_size(t.err)
      [] OTHER -> 1

\* cost_functions::ANALYSIS_TYPE_LOOKUP: linear in its input
ANALYSIS_TYPE_LOOKUP(input) == input

\* runtime_cost!(cost_functions::ANALYSIS_TYPE_LOOKUP, checker, input)?
runtime_cost(st, input) ==
    IF st.err.some THEN st
    ELSE LET total == st.cost_track.total + ANALYSIS_TYPE_LOOKUP(input)
             metered == [st EXCEPT !.cost_track.total = total]
         IN  IF total > st.cost_track.limit
             THEN Failed(metered, Did("cost", 0, input), CostBalanceExceeded)
             ELSE Passed(metered, Did("cost", 0, input))

\* TypeChecker::type_check: the type inferred for the expression
type_check(expr) == expr.infers

\* checker.type_check_expects(&args[pos], context, &expected_type)?
type_check_expects(st, args, pos, expected_type) ==
    IF st.err.some THEN st
    ELSE LET actual_type == type_check(args[pos + 1])
         IN  IF admits_type(expected_type, actual_type)
             THEN Passed(st, Did("type_check", pos, expected_type))
             ELSE Failed(st, Did("type_check", pos, expected_type),
                         TypeError(expected_type, actual_type))

\* the TypeResult of a handler and what it did
Returned(st, t) ==
    [res |-> IF st.err.some THEN st.err.val ELSE OkType(t),
     cost_track |-> st.cost_track, trace |-> st.trace]

\* the declared type of the NFT named by args[0] (read after a successful lookup)
expected_asset_type_of(chk, args) == get_nft_type(chk.contract_context, args[1].name).val

\* mutant: the result type follows the declared identifier type
check_special_get_owner_of_asset_type(chk, args) ==
    LET counted == check_argument_count(Entered(chk), 2, args)
        named == match_atom_or_bad_token_name(counted, args)
        found == get_nft_type_or_no_such_nft(named, chk, args)
        expected_asset_type == expected_asset_type_of(chk, args)
        metered == runtime_cost(found, type_size(expected_asset_type))
        checked == type_check_expects(metered, args, 1, expected_asset_type)
    IN  Returned(checked, OptionalType(expected_asset_type))

\* lines 8-24
check_special_get_owner(chk, args) ==
    LET counted == check_argument_count(Entered(chk), 2, args)
        named == match_atom_or_bad_token_name(counted, args)
        found == get_nft_type_or_no_such_nft(named, chk, args)
        expected_asset_type == expected_asset_type_of(chk, args)
        metered == runtime_cost(found, type_size(expected_asset_type))
        checked == type_check_expects(metered, args, 1, expected_asset_type)
    IN  Returned(checked, OptionalType(PrincipalType))

\* mutant: only the first check of an analysis run is metered
check_special_get_balance_metered_once(chk, args) ==
    LET counted == check_argument_count(Entered(chk), 2, args)
        named == match_atom_or_bad_token_name(counted, args)
        found == ft_exists_or_no_such_ft(named, chk, args)
        metered == runtime_cost(found, IF chk.cost_track.total = 0 THEN 1 ELSE 0)
        expected_owner_type == PrincipalType
        checked == type_check_expects(metered, args, 1, expected_owner_type)
    IN  Returned(checked, UIntType)

\* lines 26-42
check_special_get_balance(chk, args) ==
    LET counted == check_argument_count(Entered(chk), 2, args)
        named == match_atom_or_bad_token_name(counted, args)
        found == ft_exists_or_no_such_ft(named, chk, args)
        metered == runtime_cost(found, 1)
        expected_owner_type == PrincipalType
        checked == type_check_expects(metered, args, 1, expected_owner_type)
    IN  Returned(checked, UIntType)

\* mutant: an NFT operation meters the constant input size 1
check_special_mint_asset_unit_cost(chk, args) ==
    LET counted == check_argument_count(Entered(chk), 3, args)
        named == match_atom_or_bad_token_name(counted, args)
        expected_owner_type == PrincipalType
        found == get_nft_type_or_no_such_nft(named, chk, args)
        expected_asset_type == expected_asset_type_of(chk, args)
        metered == runtime_cost(found, 1)
        checked1 == type_check_expects(metered, args, 1, expected_asset_type)
        checked2 == type_check_expects(checked1, args, 2, expected_owner_type)
    IN  Returned(checked2, ResponseType(BoolType, UIntType))

\* lines 44-63
check_special_mint_asset(chk, args) ==
    LET counted == check_argument_count(Entered(chk), 3, args)
        named == match_atom_or_bad_token_name(counted, args)
        expected_owner_type == PrincipalType
        found == get_nft_type_or_no_such_nft(named, chk, args)
        expected_asset_type == expected_asset_type_of(chk, args)
        metered == runtime_cost(found, type_size(expected_asset_type))
        checked1 == type_check_expects(metered, args, 1, expected_asset_type)
        checked2 == type_check_expects(checked1, args, 2, expected_owner_type)
    IN  Returned(checked2, ResponseType(BoolType, UIntType))

\* mutant: the name is matched before the arguments are counted
check_special_mint_token_atom_first(chk, args) ==
    LET named == match_atom_or_bad_token_name(Entered(chk), args)
        counted == check_argument_count(named, 3, args)
        expected_amount == UIntType
        expected_owner_type == PrincipalType
        metered == runtime_cost(counted, 1)
        checked1 == type_check_expects(metered, args, 1, expected_amount)
        checked2 == type_check_expects(checked1, args, 2, expected_owner_type)
        found == ft_exists_or_no_such_ft(checked2, chk, args)
    IN  Returned(found, ResponseType(BoolType, UIntType))

\* lines 65-86
check_special_mint_token(chk, args) ==
    LET counted == check_argument_count(Entered(chk), 3, args)
        named == match_atom_or_bad_token_name(counted, args)
        expected_amount == UIntType
        expected_owner_type == PrincipalType
        metered == runtime_cost(named, 1)
        checked1 == type_check_expects(metered, args, 1, expected_amount)
        checked2 == type_check_expects(checked1, args, 2, expected_owner_type)
        found == ft_exists_or_no_such_ft(checked2, chk, args)
    IN  Returned(found, ResponseType(BoolType, UIntType))

\* mutant: the owner is checked before the asset identifier
check_special_transfer_asset_owner_first(chk, args) ==
    LET counted == check_argument_count(Entered(chk), 4, args)
        named == match_atom_or_bad_token_name(counted, args)
        expected_owner_type == PrincipalType
        found == get_nft_type_or_no_such_nft(named, chk, args)
        expected_asset_type == expected_asset_type_of(chk, args)
        metered == runtime_cost(found, type_size(expected_asset_type))
        checked2 == type_check_expects(metered, args, 2, expected_owner_type)
        checked1 == type_check_expects(checked2, args, 1, expected_asset_type)
        checked3 == type_check_expects(checked1, args, 3, expected_owner_type)
    IN  Returned(checked3, ResponseType(BoolType, UIntType))

\* lines 88-108
check_special_transfer_asset(chk, args) ==
    LET counted == check_argument_count(Entered(chk), 4, args)
        named == match_atom_or_bad_token_name(counted, args)
        expected_owner_type == PrincipalType
        found == get_nft_type_or_no_such_nft(named, chk, args)
        expected_asset_type == expected_asset_type_of(chk, args)
        metered == runtime_cost(found, type_size(expected_asset_type))
        checked1 == type_check_expects(metered, args, 1, expected_asset_type)
        checked2 == type_check_expects(checked1, args, 2, expected_owner_type)
        checked3 == type_check_expects(checked2, args, 3, expected_owner_type)
    IN  Returned(checked3, ResponseType(BoolType, UIntType))

\* mutant: the failure of the metering call is dropped
check_special_transfer_token_over_budget(chk, args) ==
    LET counted == check_argument_count(Entered(chk), 4, args)
        named == match_atom_or_bad_token_name(counted, args)
        expected_amount == UIntType
        expected_owner_type == PrincipalType
        metered == [runtime_cost(named, 1) EXCEPT !.err = named.err]
        checked1 == type_check_expects(metered, args, 1, expected_amount)
        checked2 == type_check_expects(checked1, args, 2, expected_owner_type)
        checked3 == type_check_expects(checked2, args, 3, expected_owner_type)
        found == ft_exists_or_no_such_ft(checked3, chk, args)
    IN  Returned(found, ResponseType(BoolType, UIntType))

\* lines 110-132
check_special_transfer_token(chk, args) ==
    LET counted == check_argument_count(Entered(chk), 4, args)
        named == match_atom_or_bad_token_name(counted, args)
        expected_amount == UIntType
        expected_owner_type == PrincipalType
        metered == runtime_cost(named, 1)
        checked1 == type_check_expects(metered, args, 1, expected_amount)
        checked2 == type_check_expects(checked1, args, 2, expected_owner_type)
        checked3 == type_check_expects(checked2, args, 3, expected_owner_type)
        found == ft_exists_or_no_such_ft(checked3, chk, args)
    IN  Returned(found, ResponseType(BoolType, UIntType))

(***************************************************************************)
(* The assets a contract declares and the argument lists handed to the     *)
(* handlers.                                                               *)
(***************************************************************************)
AssetNames == {"stackaroo", "stackaroos"}
\* the identifier types of the declared non-fungible tokens
NftTypes == {UIntType, BufferType(MaxBuffLen), OptionalType(UIntType)}
\* the types inferred for the arguments after the name
ArgumentTypes == {UIntType, PrincipalType, BufferType(1), OptionalType(UIntType)}
\* argument 0: the name of an asset, or an expression that is not an atom
FirstArguments == {Atom(n) : n \in AssetNames} \cup {LiteralValue(UIntType)}

\* the argument lists for a handler of the given arity: every list of that length,
\* and the lists of principals with one argument less and one more
Arguments(arity) ==
    {<<a0>> \o [i \in 1..(arity - 1) |-> LiteralValue(ts[i])] :
        a0 \in FirstArguments, ts \in [1..(arity - 1) -> ArgumentTypes]}
    \cup {<<a0>> \o [i \in 1..k |-> LiteralValue(PrincipalType)] :
            a0 \in FirstArguments, k \in {arity - 2, arity}}

\* the last call of a handler: the checker it was called with (entered), its
\* arguments, its TypeResult and the steps it took
NoHandled ==
    [name |-> "none", entered |-> TypeChecker(MaxBudget), args |-> <<>>,
     res |-> OkType(NoType), trace |-> <<>>]
Handled(name, chk, args, returned) ==
    [name |-> name, entered |-> chk, args |-> args,
     res |-> returned.res, trace |-> returned.trace]

(***************************************************************************)
(* Actions of the asset/token model.  The type checker stops at the first  *)
(* failure of a handler.                                                   *)
(***************************************************************************)
Checking == handled.res.kind = "Ok"
Undeclared(name) ==
    /\ name \notin DOMAIN checker.contract_context.non_fungible_tokens
    /\ name \notin checker.contract_context.fungible_tokens

DefineNonFungibleToken ==
    \E name \in AssetNames, nft_type \in NftTypes :
        /\ Checking /\ Undeclared(name)
        /\ checker' = [checker EXCEPT !.contract_context =
                           add_non_fungible_token(@, name, nft_type)]
        /\ UNCHANGED <<traitVars, handled, astVars>>

DefineFungibleToken ==
    \E name \in AssetNames :
        /\ Checking /\ Undeclared(name)
        /\ checker' = [checker EXCEPT !.contract_context = add_fungible_token(@, name)]
        /\ UNCHANGED <<traitVars, handled, astVars>>

\* the checker after a handler returned: what the handler metered is consumed
Metered(chk, returned) == [chk EXCEPT !.cost_track = returned.cost_track]

\* the type checker meets the primitive and calls its handler
GetOwner ==
    \E args \in Arguments(2) :
        LET returned == check_special_get_owner(checker, args)
        IN  /\ Checking
            /\ checker' = Metered(checker, returned)
            /\ handled' = Handled("nft-get-owner?", checker, args, returned)
            /\ UNCHANGED <<traitVars, astVars>>

GetBalance ==
    \E args \in Arguments(2) :
        LET returned == check_special_get_balance(checker, args)
        IN  /\ Checking
            /\ checker' = Metered(checker, returned)
            /\ handled' = Handled("ft-get-balance", checker, args, returned)
            /\ UNCHANGED <<traitVars, astVars>>

MintAsset ==
    \E args \in Arguments(3) :
        LET returned == check_special_mint_asset(checker, args)
        IN  /\ Checking
            /\ checker' = Metered(checker, returned)
            /\ handled' = Handled("nft-mint?", checker, args, returned)
            /\ UNCHANGED <<traitVars, astVars>>

MintToken ==
    \E args \in Arguments(3) :
        LET returned == check_special_mint_token(checker, args)
        IN  /\ Checking
            /\ checker' = Metered(checker, returned)
            /\ handled' = Handled("ft-mint?", checker, args, returned)
            /\ UNCHANGED <<traitVars, astVars>>

TransferAsset ==
    \E args \in Arguments(4) :
        LET returned == check_special_transfer_asset(checker, args)
        IN  /\ Checking
            /\ checker' = Metered(checker, returned)
            /\ handled' = Handled("nft-transfer?", checker, args, returned)
            /\ UNCHANGED <<traitVars, astVars>>

TransferToken ==
    \E args \in Arguments(4) :
        LET returned == check_special_transfer_token(checker, args)
        IN  /\ Checking
            /\ checker' = Metered(checker, returned)
            /\ handled' = Handled("ft-transfer?", checker, args, returned)
            /\ UNCHANGED <<traitVars, astVars>>

(***************************************************************************)
(* The expression identifier (ast/expression_identifier/mod.rs).           *)
(*                                                                         *)
(* A SymbolicExpression carries its id and its expr: an atom or a literal  *)
(* value, or a list of expressions.  ParseResult<u64> is Ok(n) or          *)
(* TooManyExpressions.                                                     *)
(***************************************************************************)
List(exprs) == [k |-> "List", exprs |-> exprs]
SymbolicExpression(id, expr) == [id |-> id, expr |-> expr]

\* u64: a number of three limbs in base 10^9, the most significant first, so
\* that the whole range 0 .. 18446744073709551615 is held exactly
Limb == 1000000000
\* the u64 of a small natural number
u64(n) == <<0, n \div Limb, n % Limb>>
\* u64::MAX = 18446744073709551615
u64_MAX == <<18, 446744073, 709551615>>
\* the mathematical sum x + y, its most significant limb not bounded
u64_sum(x, y) ==
    LET low == x[3] + y[3]
        mid == x[2] + y[2] + (low \div Limb)
        high == x[1] + y[1] + (mid \div Limb)
    IN  <<high, mid % Limb, low % Limb>>
\* x > y
u64_gt(x, y) ==
    \/ x[1] > y[1]
    \/ x[1] = y[1] /\ x[2] > y[2]
    \/ x[1] = y[1] /\ x[2] = y[2] /\ x[3] > y[3]
\* u64::checked_add: None when the sum is beyond u64::MAX
checked_add(x, y) ==
    LET sum == u64_sum(x, y)
    IN  IF u64_gt(sum, u64_MAX) THEN None ELSE Some(sum)

OkU64(n) == [kind |-> "Ok", val |-> n]
TooManyExpressions == [kind |-> "TooManyExpressions"]
\* the ParseResult of a relabelling, and the slice as the relabelling left it
Relabelled(res, args) == [res |-> res, args |-> args]

\* mutant: an atom takes two ids
after_atom_by_two(current) == checked_add(current, u64(2))
\* lines 12-15: the id that follows the id of an atom
after_atom(current) == checked_add(current, u64(1))

\* mutant: the children of every list are numbered from the start again
children_index_restarting(current) == u64(0)
\* line 17: the index the children of a list are numbered from, the list's own id
children_index(current) == current

\* lines 6-22: inner_relabel, and its loop over args from the i-th expression on
RECURSIVE inner_relabel(_, _), relabel_from(_, _, _)
inner_relabel(args, index) ==
    LET first == checked_add(index, u64(1))
    IN  IF ~first.some THEN Relabelled(TooManyExpressions, args)
        ELSE relabel_from(args, 1, first.val)
relabel_from(args, i, current) ==
    IF i > Len(args) THEN Relabelled(OkU64(current), args)
    ELSE LET expression == [args[i] EXCEPT !.id = current]
         IN  IF expression.expr.k = "List"
             THEN LET inner == inner_relabel(expression.expr.exprs, children_index(current))
                      relabelled == [expression EXCEPT !.expr = List(inner.args)]
                      done == [args EXCEPT ![i] = relabelled]
                  IN  IF inner.res.kind # "Ok" THEN Relabelled(inner.res, done)
                      ELSE relabel_from(done, i + 1, inner.res.val)
             ELSE LET following == after_atom(current)
                      done == [args EXCEPT ![i] = expression]
                  IN  IF ~following.some THEN Relabelled(TooManyExpressions, done)
                      ELSE relabel_from(done, i + 1, following.val)

OkUnit == [kind |-> "Ok"]
\* lines 24-27
update_expression_id(exprs) ==
    LET relabelled == inner_relabel(exprs, u64(0))
    IN  IF relabelled.res.kind # "Ok" THEN relabelled
        ELSE Relabelled(OkUnit, relabelled.args)

\* number of expressions of a forest, nested ones included
RECURSIVE Nodes(_)
Nodes(exprs) ==
    IF exprs = <<>> THEN 0
    ELSE LET head == Head(exprs)
         IN  1 + (IF head.expr.k = "List" THEN Nodes(head.expr.exprs) ELSE 0)
               + Nodes(Tail(exprs))

MaxNodes == 4           \* expressions of a parsed contract, nested ones included
\* the ids the parser leaves in the expressions it builds
StoredIds == {u64(0), u64(2)}

\* ContractAST: its expressions, and the ParseResult of the pass once it ran
ContractAST(expressions, res) == [expressions |-> expressions, res |-> res]
NoContractAST == ContractAST(<<>>, [kind |-> "none"])

Parsing == contract_ast.res.kind = "none" /\ Nodes(contract_ast.expressions) < MaxNodes

\* the parser reads an atom at the top level
ParseAtom ==
    \E id \in StoredIds :
        /\ Parsing
        /\ contract_ast' = ContractAST(
               Append(contract_ast.expressions, SymbolicExpression(id, Atom("a"))),
               contract_ast.res)
        /\ UNCHANGED <<traitVars, assetVars, iterator>>

\* the parser closes a list around the last k expressions it read
ParseList ==
    \E id \in StoredIds, k \in 0..Len(contract_ast.expressions) :
        LET n == Len(contract_ast.expressions)
        IN  /\ Parsing
            /\ contract_ast' = ContractAST(
                   Append(SubSeq(contract_ast.expressions, 1, n - k),
                          SymbolicExpression(id,
                              List(SubSeq(contract_ast.expressions, n - k + 1, n)))),
                   contract_ast.res)
            /\ UNCHANGED <<traitVars, assetVars, iterator>>

\* lines 33-36: BuildASTPass::run_pass of ExpressionIdentifier
RunExpressionIdentifier ==
    LET relabelled == update_expression_id(contract_ast.expressions)
    IN  /\ contract_ast' = ContractAST(relabelled.args, relabelled.res)
        /\ UNCHANGED <<traitVars, assetVars, iterator>>

(***************************************************************************)
(* ContractAnalysis::expressions_iter and ExpressionsIterator::next        *)
(* (analysis/types.rs).  Indices count from 0 as in the program; indexing  *)
(* a vector outside its length panics.                                     *)
(***************************************************************************)
ExpressionsIterator(expressions, sorting, index) ==
    [expressions |-> expressions, sorting |-> sorting, index |-> index]

\* lines 132-144
expressions_iter(self) ==
    ExpressionsIterator(self.expressions,
        IF self.top_level_expression_sorting.some
        THEN Some(self.top_level_expression_sorting.val)
        ELSE None,
        0)

\* v[i] of a vector: the element, or the panic of an index out of bounds
Indexed(v, i) == IF i < Len(v) THEN [kind |-> "Some", val |-> v[i + 1]] ELSE [kind |-> "panic"]

\* lines 156-167: what next returns (None, Some(item) or a panic), and the iterator after it
ExpressionsIterator_next(self) ==
    IF self.index >= Len(self.expressions)
    THEN [returned |-> [kind |-> "None"], self |-> self]
    ELSE LET expr_index == IF self.sorting.some
                           THEN Indexed(self.sorting.val, self.index)
                           ELSE [kind |-> "Some", val |-> self.index]
         IN  IF expr_index.kind = "panic"
             THEN [returned |-> expr_index, self |-> self]
             ELSE LET result == Indexed(self.expressions, expr_index.val)
                  IN  IF result.kind = "panic"
                      THEN [returned |-> result, self |-> self]
                      ELSE [returned |-> result,
                            self |-> [self EXCEPT !.index = @ + 1]]

\* the iterator a caller holds: what it yielded so far, and how its last call ended
NoIterator ==
    [state |-> "none", self |-> ExpressionsIterator(<<>>, None, 0), yielded |-> <<>>]

\* the top-level expressions of the contracts under analysis
ExpressionLists ==
    {update_expression_id(exprs).args :
        exprs \in {<<>>,
                   <<SymbolicExpression(u64(0), Atom("a"))>>,
                   <<SymbolicExpression(u64(0), Atom("a")), SymbolicExpression(u64(0), List(<<>>))>>,
                   <<SymbolicExpression(u64(0), List(<<SymbolicExpression(u64(0), Atom("a"))>>)),
                     SymbolicExpression(u64(0), Atom("a")),
                     SymbolicExpression(u64(0), Atom("stackaroo"))>>}}

\* a caller asks the record for its expressions
ExpressionsIter ==
    /\ iterator.state = "none"
    /\ iterator' = [state |-> "running", self |-> expressions_iter(contract_analysis),
                    yielded |-> <<>>]
    /\ UNCHANGED <<traitVars, assetVars, contract_ast>>

\* the caller calls next until it returns None
IteratorNext ==
    LET called == ExpressionsIterator_next(iterator.self)
    IN  /\ iterator.state = "running"
        /\ iterator' =
               [state |-> CASE called.returned.kind = "Some" -> "running"
                            [] called.returned.kind = "None" -> "exhausted"
                            [] OTHER -> "panicked",
                self |-> called.self,
                yielded |-> IF called.returned.kind = "Some"
                            THEN Append(iterator.yielded, called.returned.val)
                            ELSE iterator.yielded]
        /\ UNCHANGED <<traitVars, assetVars, contract_ast>>

(***************************************************************************)
(* Actions of the trait compliance model.                                  *)
(***************************************************************************)
Building == pass.name = "none" /\ Entries(contract_analysis) < MaxEntries

AddPublicFunction ==
    \E f \in PublicFunctions :
        /\ Building
        /\ contract_analysis' = add_public_function(contract_analysis, f[1], f[2])
        /\ UNCHANGED <<analysis_db, pass, assetVars, astVars>>

AddPrivateFunction ==
    /\ Building
    /\ contract_analysis' = add_private_function(contract_analysis, "get-1",
                                Fixed(BaseArgs, BaseReturns))
    /\ UNCHANGED <<analysis_db, pass, assetVars, astVars>>

AddReadOnlyFunction ==
    /\ Building
    /\ contract_analysis' = add_read_only_function(contract_analysis, "get-1",
                                Fixed(BaseArgs, BaseReturns))
    /\ UNCHANGED <<analysis_db, pass, assetVars, astVars>>

AddReferencedTrait ==
    \E i \in DOMAIN TraitNames, t \in ImportedTraits :
        /\ Building
        /\ contract_analysis' = add_referenced_trait(contract_analysis, TraitNames[i], t)
        /\ UNCHANGED <<analysis_db, pass, assetVars, astVars>>

AddImplementedTrait ==
    \E t \in ImplementableTraits :
        /\ Building
        /\ contract_analysis' = add_implemented_trait(contract_analysis, t)
        /\ UNCHANGED <<analysis_db, pass, assetVars, astVars>>

\* AnalysisPass::run_pass of TraitChecker
RunTraitChecker ==
    \E failing \in SUBSET contract_analysis.implemented_traits :
        /\ pass.name = "none"
        /\ pass' = PassRun("TraitChecker",
                       TraitChecker_run(contract_analysis, analysis_db, failing))
        /\ UNCHANGED <<analysis_db, contract_analysis, assetVars, astVars>>

\* mutant: the pass stores the record it accepted
RunPostTypeCheckingTraitChecker_storing ==
    LET ran == PassRun("PostTypeCheckingTraitChecker",
                   PostTypeCheckingTraitChecker_run(contract_analysis, analysis_db))
    IN  /\ pass.name = "none"
        /\ pass' = ran
        /\ analysis_db' = IF ran.res = Ok
                          THEN insert(analysis_db, contract_analysis.contract_identifier,
                                      contract_analysis)
                          ELSE analysis_db
        /\ UNCHANGED <<contract_analysis, assetVars, astVars>>

\* AnalysisPass::run_pass of PostTypeCheckingTraitChecker
RunPostTypeCheckingTraitChecker ==
    /\ pass.name = "none"
    /\ pass' = PassRun("PostTypeCheckingTraitChecker",
                   PostTypeCheckingTraitChecker_run(contract_analysis, analysis_db))
    /\ UNCHANGED <<analysis_db, contract_analysis, assetVars, astVars>>

Init ==
    /\ analysis_db \in Databases
    /\ contract_analysis = new("target", <<>>)
    /\ pass = NoPass
    /\ checker = TypeChecker(MaxBudget)
    /\ handled = NoHandled
    /\ contract_ast = NoContractAST
    /\ iterator = NoIterator

Next ==
    \/ AddPublicFunction
    \/ AddPrivateFunction
    \/ AddReadOnlyFunction
    \/ AddReferencedTrait
    \/ AddImplementedTrait
    \/ RunTraitChecker
    \/ RunPostTypeCheckingTraitChecker

Spec == Init /\ [][Next]_vars

\* the trait passes against a database of traits that name each other
InitCyclic ==
    /\ analysis_db \in CyclicDatabases
    /\ contract_analysis = new("target", <<>>)
    /\ pass = NoPass
    /\ checker = TypeChecker(MaxBudget)
    /\ handled = NoHandled
    /\ contract_ast = NoContractAST
    /\ iterator = NoIterator

SpecCyclic == InitCyclic /\ [][Next]_vars

\* the type checker at work on the contract, before the trait passes
InitAssets ==
    /\ analysis_db = [c \in {"nested"} |-> NestedRecord]
    /\ contract_analysis = new("target", <<>>)
    /\ pass = NoPass
    /\ checker = TypeChecker(MaxBudget)
    /\ handled = NoHandled
    /\ contract_ast = NoContractAST
    /\ iterator = NoIterator

NextAssets ==
    \/ DefineNonFungibleToken
    \/ DefineFungibleToken
    \/ GetOwner
    \/ GetBalance
    \/ MintAsset
    \/ MintToken
    \/ TransferAsset
    \/ TransferToken

SpecAssets == InitAssets /\ [][NextAssets]_vars


\* the analysis of another contract ended, and its record was stored
StoreContract ==
    \E stored \in DefiningRecords :
        /\ pass.name # "none"
        /\ stored.contract_identifier \notin DOMAIN analysis_db
        /\ analysis_db' = insert(analysis_db, stored.contract_identifier, stored)
        /\ UNCHANGED <<contract_analysis, pass, assetVars, astVars>>

\* check_trait_compliance is a function of the record and of the trait definition:
\* on the same record it rejects the trait it rejected, and accepts those it accepted
SameCompliance(failing) ==
    \A i \in DOMAIN pass.trace :
        pass.trace[i].ev = "comply" =>
            (pass.trace[i].trait \in failing <=> (i = Len(pass.trace) /\ pass.res # Ok))

\* TraitChecker runs again on the record it ran on
RunTraitCheckerAgain ==
    \E failing \in SUBSET contract_analysis.implemented_traits :
        /\ pass.name = "TraitChecker"
        /\ SameCompliance(failing)
        /\ pass' = PassRun("TraitChecker",
                       TraitChecker_run(contract_analysis, analysis_db, failing))
        /\ UNCHANGED <<analysis_db, contract_analysis, assetVars, astVars>>

\* PostTypeCheckingTraitChecker runs again on the record it ran on
RunPostTypeCheckingTraitCheckerAgain ==
    /\ pass.name = "PostTypeCheckingTraitChecker"
    /\ pass' = PassRun("PostTypeCheckingTraitChecker",
                   PostTypeCheckingTraitChecker_run(contract_analysis, analysis_db))
    /\ UNCHANGED <<analysis_db, contract_analysis, assetVars, astVars>>

\* a contract is analysed while the contracts it names are not all stored yet,
\* and analysed again when more of them are
InitReanalysis ==
    /\ analysis_db = [c \in {"nested"} |-> NestedRecord]
    /\ contract_analysis = new("target", <<>>)
    /\ pass = NoPass
    /\ checker = TypeChecker(MaxBudget)
    /\ handled = NoHandled
    /\ contract_ast = NoContractAST
    /\ iterator = NoIterator

NextReanalysis ==
    \/ AddPublicFunction
    \/ AddReferencedTrait
    \/ AddImplementedTrait
    \/ RunTraitChecker
    \/ RunPostTypeCheckingTraitChecker
    \/ StoreContract
    \/ RunTraitCheckerAgain
    \/ RunPostTypeCheckingTraitCheckerAgain

SpecReanalysis == InitReanalysis /\ [][NextReanalysis]_vars

\* the parser and the expression identifier at work on a contract
InitAst ==
    /\ analysis_db = [c \in {"nested"} |-> NestedRecord]
    /\ contract_analysis = new("target", <<>>)
    /\ pass = NoPass
    /\ checker = TypeChecker(MaxBudget)
    /\ handled = NoHandled
    /\ contract_ast = NoContractAST
    /\ iterator = NoIterator

NextAst ==
    \/ ParseAtom
    \/ ParseList
    \/ RunExpressionIdentifier

SpecAst == InitAst /\ [][NextAst]_vars

\* a record made by new and filled by add operations, and an iterator over it
InitExpressions ==
    /\ analysis_db = [c \in {"nested"} |-> NestedRecord]
    /\ contract_analysis \in {new("target", exprs) : exprs \in ExpressionLists}
    /\ pass = NoPass
    /\ checker = TypeChecker(MaxBudget)
    /\ handled = NoHandled
    /\ contract_ast = NoContractAST
    /\ iterator = NoIterator

NextExpressions ==
    \/ AddPrivateFunction
    \/ AddReadOnlyFunction
    \/ AddReferencedTrait
    \/ AddImplementedTrait
    \/ ExpressionsIter
    \/ IteratorNext

SpecExpressions == InitExpressions /\ [][NextExpressions]_vars

(***************************************************************************)
(* The analysis of a sequence of contracts (type_check in the tests of     *)
(* trait_checker): the declarations of a contract fill its record, the     *)
(* two trait passes run on the completed record, and the record is stored  *)
(* in the database when they succeed.                                      *)
(***************************************************************************)
NameAlreadyUsed(name) == [kind |-> "NameAlreadyUsed", a |-> name, b |-> ""]
CircularReference(name) == [kind |-> "CircularReference", a |-> name, b |-> ""]
NoSuchContract(contract) == [kind |-> "NoSuchContract", a |-> contract, b |-> ""]

\* mutant: only the defined traits take a name
name_defined(analysis, name) == name \in DOMAIN analysis.defined_traits

\* the name is taken in the contract: by a defined trait or by an imported one
name_used(analysis, name) ==
    name \in DOMAIN analysis.defined_traits \/ name \in DOMAIN analysis.referenced_traits

\* the identity a local trait name stands for: a trait defined here, or an imported one
resolve_trait(analysis, name) ==
    IF name \in DOMAIN analysis.defined_traits
    THEN Some(TraitIdentifier(analysis.contract_identifier, name))
    ELSE get_referenced_trait(analysis, name)

\* the trait an identity stands for: an identity that names a trait its contract only
\* imports is followed, import by import, to the contract that defines the trait
RECURSIVE declared_trait(_, _, _)
declared_trait(records, trait_identifier, hops) ==
    LET contract == trait_identifier.contract_identifier
        name == trait_identifier.name
    IN  IF hops = 0 \/ contract \notin DOMAIN records THEN trait_identifier
        ELSE IF name \in DOMAIN records[contract].defined_traits THEN trait_identifier
        ELSE IF name \notin DOMAIN records[contract].referenced_traits THEN trait_identifier
        ELSE declared_trait(records, records[contract].referenced_traits[name], hops - 1)

\* the traits the definition of trait_identifier names in its method parameter types
referenced_by(records, trait_identifier) ==
    LET contract == trait_identifier.contract_identifier
    IN  IF contract \notin DOMAIN records THEN {}
        ELSE IF trait_identifier.name \notin DOMAIN records[contract].defined_traits THEN {}
        ELSE LET definition == records[contract].defined_traits[trait_identifier.name]
                 names == UNION {{definition[m].args[i].name :
                                    i \in {j \in DOMAIN definition[m].args :
                                             definition[m].args[j].k = "TraitReferenceType"}} :
                                 m \in DOMAIN definition}
             IN  {declared_trait(records, resolve_trait(records[contract], n).val,
                                 Cardinality(DOMAIN records)) :
                     n \in {x \in names : resolve_trait(records[contract], x).some}}

\* the walk of the reference graph with its visited set
RECURSIVE reachable_from(_, _, _)
reachable_from(records, frontier, visited) ==
    IF frontier = {} THEN visited
    ELSE LET next == UNION {referenced_by(records, t) : t \in frontier} \ visited
         IN  reachable_from(records, next, visited \cup next)

\* mutant: only a definition that names its own trait is a cycle
refers_to_itself(records, trait_identifier) ==
    trait_identifier \in referenced_by(records, trait_identifier)

\* the reference graph of the records has a cycle through trait_identifier
in_cycle(records, trait_identifier) ==
    LET first == referenced_by(records, trait_identifier)
    IN  trait_identifier \in reachable_from(records, first, first)

\* the outcome of a declaration: its result, and the record after it
Declared(res, analysis) == [res |-> res, analysis |-> analysis]

\* (define-trait name definition)
define_trait(analysis, db, name, definition) ==
    IF name_used(analysis, name) THEN Declared(NameAlreadyUsed(name), analysis)
    ELSE LET added == add_defined_trait(analysis, name, definition)
             records == insert(db, analysis.contract_identifier, added)
         IN  IF in_cycle(records, TraitIdentifier(analysis.contract_identifier, name))
             THEN Declared(CircularReference(name), analysis)
             ELSE Declared(Ok, added)

\* (use-trait name trait_identifier): the named contract is read from the database,
\* and the trait is one of its namespace, defined there or imported there
use_trait(analysis, db, name, trait_identifier) ==
    IF name_used(analysis, name) THEN Declared(NameAlreadyUsed(name), analysis)
    ELSE LET loaded == load_contract(db, trait_identifier.contract_identifier)
         IN  IF ~loaded.some
             THEN Declared(NoSuchContract(trait_identifier.contract_identifier), analysis)
             ELSE IF ~resolve_trait(loaded.val, trait_identifier.name).some
             THEN Declared(TraitReferenceUnknown(trait_identifier.name), analysis)
             ELSE Declared(Ok, add_referenced_trait(analysis, name, trait_identifier))

\* mutant: the contract an impl-trait names is not looked up
impl_trait_unchecked(analysis, db, trait_identifier) ==
    Declared(Ok, add_implemented_trait(analysis, trait_identifier))

\* (impl-trait trait_identifier): the named contract is read from the database, which
\* does not hold the contract under analysis; its traits are read by the trait passes
impl_trait(analysis, db, trait_identifier) ==
    IF ~load_contract(db, trait_identifier.contract_identifier).some
    THEN Declared(NoSuchContract(trait_identifier.contract_identifier), analysis)
    ELSE Declared(Ok, add_implemented_trait(analysis, trait_identifier))

\* the two trait passes in their order; the second runs when the first succeeded
run_trait_passes(analysis, db, failing) ==
    LET first == TraitChecker_run(analysis, db, failing)
    IN  IF first.res # Ok THEN PassRun("TraitChecker", first)
        ELSE PassRun("PostTypeCheckingTraitChecker",
                     PostTypeCheckingTraitChecker_run(analysis, db))

\* the contracts analyzed, and what they declare
AnalyzedContracts == {"defining", "target"}
DeclaredSignatures ==
    {FunctionSignature(<<t>>, BaseReturns) :
        t \in {PrincipalType} \cup {TraitReferenceType(n) : n \in Range(TraitNames)}}
DeclaredDefinitions ==
    {[m \in {FunctionNames[i]} |-> sig] : i \in {1}, sig \in DeclaredSignatures}
DeclaredIdentifiers ==
    {TraitIdentifier(c, n) : c \in Range(ContractIdentifiers), n \in Range(TraitNames)}

\* a declaration that is rejected ends the analysis of the contract
Rejected(ev, trait_identifier, name, declared, res) ==
    [name |-> "TypeChecker", res |-> res,
     trace |-> <<Step(ev, trait_identifier, name, 0)>>, declared |-> declared]

DefineTrait ==
    \E i \in DOMAIN TraitNames, definition \in DeclaredDefinitions :
        LET name == TraitNames[i]
            done == define_trait(contract_analysis, analysis_db, name, definition)
        IN  /\ Building
            /\ contract_analysis' = done.analysis
            /\ pass' = IF done.res = Ok THEN pass
                       ELSE Rejected("define-trait",
                                TraitIdentifier(contract_analysis.contract_identifier, name),
                                name, definition, done.res)
            /\ UNCHANGED <<analysis_db, assetVars, astVars>>

UseTrait ==
    \E i \in DOMAIN TraitNames, trait_identifier \in DeclaredIdentifiers :
        LET name == TraitNames[i]
            done == use_trait(contract_analysis, analysis_db, name, trait_identifier)
        IN  /\ Building
            /\ trait_identifier.contract_identifier # contract_analysis.contract_identifier
            /\ contract_analysis' = done.analysis
            /\ pass' = IF done.res = Ok THEN pass
                       ELSE Rejected("use-trait", trait_identifier, name, trait_identifier, done.res)
            /\ UNCHANGED <<analysis_db, assetVars, astVars>>

ImplTrait ==
    \E trait_identifier \in DeclaredIdentifiers :
        LET done == impl_trait(contract_analysis, analysis_db, trait_identifier)
        IN  /\ Building
            /\ trait_identifier.name = TraitNames[1]
            /\ contract_analysis' = done.analysis
            /\ pass' = IF done.res = Ok THEN pass
                       ELSE Rejected("impl-trait", trait_identifier, "", trait_identifier, done.res)
            /\ UNCHANGED <<analysis_db, assetVars, astVars>>

DefinePublic ==
    /\ Building
    /\ contract_analysis' = add_public_function(contract_analysis, FunctionNames[1],
                                Fixed(BaseArgs, BaseReturns))
    /\ UNCHANGED <<analysis_db, pass, assetVars, astVars>>

\* the passes run on the completed record; the record is stored when they succeed
Analyze ==
    \E failing \in SUBSET contract_analysis.implemented_traits :
        LET ran == run_trait_passes(contract_analysis, analysis_db, failing)
        IN  /\ pass.name = "none"
            /\ pass' = ran
            /\ analysis_db' = IF ran.res = Ok
                              THEN insert(analysis_db, contract_analysis.contract_identifier,
                                          contract_analysis)
                              ELSE analysis_db
            /\ UNCHANGED <<contract_analysis, assetVars, astVars>>

\* the analysis of the next contract begins when the last one was stored
AnalyzeNext ==
    \E contract \in AnalyzedContracts :
        /\ pass.name = "PostTypeCheckingTraitChecker" /\ pass.res = Ok
        /\ contract \notin DOMAIN analysis_db
        /\ contract_analysis' = new(contract, <<>>)
        /\ pass' = NoPass
        /\ UNCHANGED <<analysis_db, assetVars, astVars>>

\* the database is empty, or holds contract "nested", analyzed and stored earlier
InitAnalysis ==
    /\ analysis_db \in {EmptyMap, [c \in {"nested"} |-> NestedRecord]}
    /\ contract_analysis \in {new(contract, <<>>) : contract \in AnalyzedContracts}
    /\ pass = NoPass
    /\ checker = TypeChecker(MaxBudget)
    /\ handled = NoHandled
    /\ contract_ast = NoContractAST
    /\ iterator = NoIterator

NextAnalysis ==
    \/ DefineTrait
    \/ UseTrait
    \/ ImplTrait
    \/ DefinePublic
    \/ Analyze
    \/ AnalyzeNext

SpecAnalysis == InitAnalysis /\ [][NextAnalysis]_vars

(***************************************************************************)
(* Reading the state of a finished pass.                                   *)
(***************************************************************************)
Phase1Ran == pass.name = "TraitChecker"
Phase2Ran == pass.name = "PostTypeCheckingTraitChecker"
Implemented == contract_analysis.implemented_traits
Public == contract_analysis.public_function_types

\* the implemented trait resolves: its contract is stored and defines it
Resolvable(t) ==
    /\ t.contract_identifier \in DOMAIN analysis_db
    /\ t.name \in DOMAIN analysis_db[t.contract_identifier].defined_traits
DefiningContract(t) == analysis_db[t.contract_identifier]
Required(t) == DefiningContract(t).defined_traits[t.name]

StepsOf(ev) == {i \in DOMAIN pass.trace : pass.trace[i].ev = ev}
SameMethod(x, y) == x.trait = y.trait /\ x.func = y.func
BadImplementationOf(st) == BadTraitImplementation(st.trait.name, st.func)
\* the required and the realized parameter type an "arg" step compared
ExpectedArg(st) == Required(st.trait)[st.func].args[st.pos]
ActualArg(st) == Public[st.func].args[st.pos].signature
IsTraitReference(t) == t.k = "TraitReferenceType"
\* the identity a trait reference resolves to in a record, None when it does not
Identity(analysis, t) ==
    IF t.name \in DOMAIN analysis.referenced_traits
    THEN Some(analysis.referenced_traits[t.name])
    ELSE None
\* the identity a trait reference has in the whole namespace of a record
WholeIdentity(analysis, t) ==
    IF t.name \in DOMAIN analysis.referenced_traits
    THEN Some(analysis.referenced_traits[t.name])
    ELSE IF t.name \in DOMAIN analysis.defined_traits
    THEN Some(TraitIdentifier(analysis.contract_identifier, t.name))
    ELSE None
SameIdentity(st) ==
    LET e == Identity(DefiningContract(st.trait), ExpectedArg(st))
        r == Identity(contract_analysis, ActualArg(st))
    IN  e.some /\ r.some /\ e.val = r.val

(***************************************************************************)
(* C1.  Phase 2 succeeds only if every method of every implemented trait   *)
(* is in the public catalog as a fixed-arity function; a required method   *)
(* that is absent from the public catalog, or is there with a non-fixed    *)
(* signature, fails the pass with BadTraitImplementation(trait, method).   *)
(***************************************************************************)
C1_PublicFixedFunctionRequired ==
    Phase2Ran =>
        /\ pass.res = Ok =>
              \A t \in Implemented :
                  /\ Resolvable(t)
                  /\ \A m \in DOMAIN Required(t) :
                        m \in DOMAIN Public /\ Public[m].k = "Fixed"
        /\ \A i \in StepsOf("function") :
              LET st == pass.trace[i]
              IN  (st.func \notin DOMAIN Public \/ Public[st.func].k # "Fixed")
                      => pass.res = BadImplementationOf(st)

\* a required method that exists only as a private and a read-only function
C1_Witness ==
    /\ Phase2Ran
    /\ pass.res = BadTraitImplementation("trait-1", "get-1")
    /\ "get-1" \notin DOMAIN Public
    /\ "get-1" \in DOMAIN contract_analysis.private_function_types
    /\ "get-1" \in DOMAIN contract_analysis.read_only_function_types

(***************************************************************************)
(* C2.  A public fixed-arity function whose parameter count differs from   *)
(* the required one fails Phase 2 with BadTraitImplementation(trait,       *)
(* method), and no parameter pair of a method is compared before its       *)
(* count check (none at all when the counts differ).                       *)
(***************************************************************************)
C2_ArgumentCountChecked ==
    Phase2Ran =>
        /\ \A i \in StepsOf("count") :
              LET st == pass.trace[i]
              IN  Len(Public[st.func].args) # Len(Required(st.trait)[st.func].args)
                      => /\ pass.res = BadImplementationOf(st)
                         /\ i = Len(pass.trace)
        /\ \A j \in StepsOf("arg") :
              \E i \in StepsOf("count") : i < j /\ SameMethod(pass.trace[i], pass.trace[j])

\* one parameter more than required, the first one of the required type
C2_Witness ==
    /\ Phase2Ran
    /\ \E i \in StepsOf("count") :
          LET st == pass.trace[i]
              func == Public[st.func]
              expected == Required(st.trait)[st.func]
          IN  /\ Len(func.args) = Len(expected.args) + 1
              /\ Len(expected.args) = 1
              /\ func.args[1].signature = expected.args[1]
              /\ pass.res = BadImplementationOf(st)

(***************************************************************************)
(* C3.  Nominal identity: where the required and the realized parameter    *)
(* are both trait references, the position is accepted only if both        *)
(* resolve to the same TraitIdentifier; otherwise Phase 2 fails with       *)
(* BadTraitImplementation(trait, method).                                  *)
(***************************************************************************)
C3_NominalIdentity ==
    Phase2Ran =>
        \A i \in StepsOf("arg") :
            LET st == pass.trace[i]
            IN  (IsTraitReference(ExpectedArg(st)) /\ IsTraitReference(ActualArg(st)))
                    => /\ pass.res = Ok => SameIdentity(st)
                       /\ ~SameIdentity(st) => pass.res = BadImplementationOf(st)

\* same local name on both sides, resolved to traits of distinct declaring contracts
C3_Witness ==
    /\ Phase2Ran
    /\ \E i \in StepsOf("arg") :
          LET st == pass.trace[i]
              e == Identity(DefiningContract(st.trait), ExpectedArg(st))
              r == Identity(contract_analysis, ActualArg(st))
          IN  /\ IsTraitReference(ExpectedArg(st)) /\ IsTraitReference(ActualArg(st))
              /\ ExpectedArg(st).name = ActualArg(st).name
              /\ e.some /\ r.some
              /\ e.val.name = r.val.name
              /\ e.val.contract_identifier # r.val.contract_identifier
              /\ pass.res = BadImplementationOf(st)

(***************************************************************************)
(* C4.  Where the required parameter is a trait reference and the realized *)
(* parameter is not (a principal, a buffer), Phase 2 fails with            *)
(* BadTraitImplementation(trait, method).                                  *)
(***************************************************************************)
C4_TraitReferenceRequired ==
    Phase2Ran =>
        \A i \in StepsOf("arg") :
            LET st == pass.trace[i]
            IN  (IsTraitReference(ExpectedArg(st)) /\ ~IsTraitReference(ActualArg(st)))
                    => pass.res = BadImplementationOf(st)

\* a principal where <trait-a> is required
C4_Witness ==
    /\ Phase2Ran
    /\ \E i \in StepsOf("arg") :
          LET st == pass.trace[i]
          IN  /\ IsTraitReference(ExpectedArg(st))
              /\ ActualArg(st) = PrincipalType
              /\ pass.res = BadImplementationOf(st)

(***************************************************************************)
(* C5.  Round trip: when every implemented trait is stored and each of its *)
(* methods is realized by a public fixed function with the same parameter  *)
(* types and the same return type, Phase 2 returns Ok.  Two trait-typed    *)
(* parameters are the same type when they name the same trait identity,    *)
(* each read in the namespace of its own contract: a trait the contract    *)
(* imports, or a trait the contract defines itself.                        *)
(***************************************************************************)
SameType(definer, expected, actual) ==
    IF IsTraitReference(expected) \/ IsTraitReference(actual)
    THEN /\ IsTraitReference(expected) /\ IsTraitReference(actual)
         /\ WholeIdentity(definer, expected).some
         /\ WholeIdentity(definer, expected) = WholeIdentity(contract_analysis, actual)
    ELSE expected = actual
RoundTrip(t) ==
    \A m \in DOMAIN Required(t) :
        /\ m \in DOMAIN Public
        /\ Public[m].k = "Fixed"
        /\ Len(Public[m].args) = Len(Required(t)[m].args)
        /\ \A i \in DOMAIN Public[m].args :
              SameType(DefiningContract(t), Required(t)[m].args[i], Public[m].args[i].signature)
        /\ Public[m].returns = Required(t)[m].returns

C5_RoundTrip ==
    (Phase2Ran /\ \A t \in Implemented : Resolvable(t) /\ RoundTrip(t)) => pass.res = Ok

\* Phase 2 ran on a contract that implements a trait and realizes its methods with
\* identical types, a parameter among them naming a trait through another alias
C5_Witness ==
    /\ Phase2Ran
    /\ Implemented # {}
    /\ \A t \in Implemented : Resolvable(t) /\ RoundTrip(t)
    /\ \E i \in StepsOf("arg") :
          /\ IsTraitReference(ExpectedArg(pass.trace[i]))
          /\ ExpectedArg(pass.trace[i]).name # ActualArg(pass.trace[i]).name

(***************************************************************************)
(* C6.  The return types are compared after every parameter of the method  *)
(* was accepted; the method is accepted only if the required return type   *)
(* admits the realized one, otherwise Phase 2 fails with                   *)
(* BadTraitImplementation(trait, method).                                  *)
(***************************************************************************)
C6_ReturnTypeAdmitted ==
    Phase2Ran =>
        \A i \in StepsOf("returns") :
            LET st == pass.trace[i]
                func == Public[st.func]
                expected == Required(st.trait)[st.func]
                admitted == admits_type(expected.returns, func.returns)
            IN  /\ \A p \in DOMAIN func.args :
                      \E j \in StepsOf("arg") :
                          j < i /\ SameMethod(pass.trace[j], st) /\ pass.trace[j].pos = p
                /\ pass.res = Ok => admitted
                /\ ~admitted => pass.res = BadImplementationOf(st) /\ i = Len(pass.trace)

\* the parameters match and the realized buffer is wider than the required one
C6_Witness ==
    /\ Phase2Ran
    /\ \E i \in StepsOf("returns") :
          LET st == pass.trace[i]
          IN  /\ Public[st.func].returns.ok.len > Required(st.trait)[st.func].returns.ok.len
              /\ Len(Public[st.func].args) > 0
              /\ pass.res = BadImplementationOf(st)

(***************************************************************************)
(* C7.  Where the required parameter is not a trait reference, the         *)
(* position is accepted (the comparison goes on) if and only if the        *)
(* required type admits the realized one; otherwise Phase 2 fails with     *)
(* BadTraitImplementation(trait, method).                                  *)
(***************************************************************************)
C7_StructuralAdmission ==
    Phase2Ran =>
        \A i \in StepsOf("arg") :
            LET st == pass.trace[i]
                admitted == admits_type(ExpectedArg(st), ActualArg(st))
            IN  ~IsTraitReference(ExpectedArg(st)) =>
                    /\ admitted <=> (i < Len(pass.trace) /\ SameMethod(pass.trace[i + 1], st))
                    /\ ~admitted <=> (i = Len(pass.trace) /\ pass.res = BadImplementationOf(st))

\* a narrower buffer is accepted where a wider one is required
C7_Witness ==
    /\ Phase2Ran
    /\ pass.res = Ok
    /\ \E i \in StepsOf("arg") :
          LET st == pass.trace[i]
          IN  /\ ExpectedArg(st).k = "BufferType"
              /\ ActualArg(st).k = "BufferType"
              /\ ActualArg(st).len < ExpectedArg(st).len

(***************************************************************************)
(* C8.  In both passes an implemented trait whose contract is not stored,  *)
(* or is stored without a trait of that name, fails the pass with          *)
(* TraitReferenceUnknown(trait name) as soon as it is loaded, before any   *)
(* of its methods is examined; a record implementing such a trait never    *)
(* passes.                                                                 *)
(***************************************************************************)
C8_UnknownTraitReference ==
    pass.name # "none" =>
        /\ \A i \in StepsOf("load") :
              LET st == pass.trace[i]
              IN  ~Resolvable(st.trait) =>
                      /\ pass.res = TraitReferenceUnknown(st.trait.name)
                      /\ i = Len(pass.trace)
        /\ (\E t \in Implemented : ~Resolvable(t)) => pass.res # Ok

\* Phase 1 on a stored contract that does not define the trait
C8_Witness ==
    /\ Phase1Ran
    /\ pass.res = TraitReferenceUnknown("trait-1")
    /\ "defining" \in DOMAIN analysis_db
    /\ "trait-1" \notin DOMAIN analysis_db["defining"].defined_traits

(***************************************************************************)
(* Reading the last call of an asset/token handler.                        *)
(***************************************************************************)
NftOperations == {"nft-get-owner?", "nft-mint?", "nft-transfer?"}
FtOperations == {"ft-get-balance", "ft-mint?", "ft-transfer?"}
\* the arity column of the table of operations
Arity(name) ==
    CASE name \in {"nft-get-owner?", "ft-get-balance"} -> 2
      [] name \in {"nft-mint?", "ft-mint?"} -> 3
      [] name \in {"nft-transfer?", "ft-transfer?"} -> 4
Called == handled.name # "none"
RightCount == Called /\ Len(handled.args) = Arity(handled.name)
NamedByAtom == RightCount /\ handled.args[1].k = "Atom"
\* the name is declared, in the catalog the operation reads, when the handler is called
DeclaredAtCall ==
    IF handled.name \in NftOperations
    THEN handled.args[1].name \in DOMAIN handled.entered.contract_context.non_fungible_tokens
    ELSE handled.args[1].name \in handled.entered.contract_context.fungible_tokens
NoSuchAsset ==
    IF handled.name \in NftOperations
    THEN NoSuchNFT(handled.args[1].name)
    ELSE NoSuchFT(handled.args[1].name)
Took(ev) == \E i \in DOMAIN handled.trace : handled.trace[i].ev = ev

(***************************************************************************)
(* C9.  For each of the six handlers, an atom argument 0 naming an asset   *)
(* or token that is not declared fails with NoSuchNFT/NoSuchFT whatever    *)
(* the remaining arguments are, and no remaining argument is type-checked  *)
(* first.  ft-mint? and ft-transfer? meter and type-check the remaining    *)
(* arguments before they look the name up, so the statement fails.         *)
(***************************************************************************)
C9_NameValidatedFirst ==
    (NamedByAtom /\ ~DeclaredAtCall) =>
        /\ handled.res = NoSuchAsset
        /\ ~Took("type_check")

\* ft-mint? of an undeclared token with a principal as amount: a type error
C9_Witness ==
    /\ handled.name = "ft-mint?"
    /\ NamedByAtom /\ ~DeclaredAtCall
    /\ handled.args[2] = LiteralValue(PrincipalType)
    /\ handled.res = TypeError(UIntType, PrincipalType)
    /\ ~Took("lookup")

(***************************************************************************)
(* C10.  For each of the six handlers called with the right number of      *)
(* arguments, an argument 0 that is not an atom fails with BadTokenName,   *)
(* and the catalogs of declared assets are not consulted.                  *)
(***************************************************************************)
C10_BadTokenName ==
    (RightCount /\ handled.args[1].k # "Atom") =>
        /\ handled.res = BadTokenName
        /\ ~Took("lookup")

\* ft-transfer? of a literal, its other arguments well typed
C10_Witness ==
    /\ handled.name = "ft-transfer?"
    /\ handled.args = <<LiteralValue(UIntType), LiteralValue(UIntType),
                        LiteralValue(PrincipalType), LiteralValue(PrincipalType)>>
    /\ handled.res = BadTokenName

(***************************************************************************)
(* C11.  An NFT operation whose atom name is not a key of the              *)
(* non-fungible-token catalog fails with NoSuchNFT(name), an FT operation  *)
(* whose atom name is not in the fungible-token set fails with             *)
(* NoSuchFT(name), a name declared only in the other catalog included,     *)
(* and no such call returns a result type.  ft-mint? and ft-transfer?      *)
(* look the name up last: a wrong remaining argument or an exhausted       *)
(* budget fails them first with another failure, so the statement fails.   *)
(***************************************************************************)
C11_UnknownAssetRejected ==
    (NamedByAtom /\ ~DeclaredAtCall) => handled.res = NoSuchAsset

\* ft-transfer? of a name declared as a non-fungible token, its amount a principal
C11_Witness ==
    /\ handled.name = "ft-transfer?"
    /\ NamedByAtom
    /\ handled.args[1].name \in DOMAIN handled.entered.contract_context.non_fungible_tokens
    /\ handled.args[1].name \notin handled.entered.contract_context.fungible_tokens
    /\ handled.args[2] = LiteralValue(PrincipalType)
    /\ handled.res.kind = "TypeError"

(***************************************************************************)
(* C12.  A handler whose checks all pass returns the result type of the    *)
(* table: optional principal for nft-get-owner?, unsigned integer for      *)
(* ft-get-balance, response(bool, unsigned integer) for the four others,   *)
(* whatever the declared identifier type and the arguments are.            *)
(***************************************************************************)
ResultType(name) ==
    CASE name = "nft-get-owner?" -> OptionalType(PrincipalType)
      [] name = "ft-get-balance" -> UIntType
      [] OTHER -> ResponseType(BoolType, UIntType)

C12_ResultType ==
    (Called /\ handled.res.kind = "Ok") => handled.res = OkType(ResultType(handled.name))

\* nft-get-owner? of an asset whose identifiers are buffers
C12_Witness ==
    /\ handled.name = "nft-get-owner?"
    /\ NamedByAtom /\ DeclaredAtCall
    /\ expected_asset_type_of(handled.entered, handled.args).k = "BufferType"
    /\ handled.res = OkType(OptionalType(PrincipalType))

(***************************************************************************)
(* C13.  For a declared asset or token (and a budget that is not           *)
(* exceeded) the remaining arguments are type-checked left to right        *)
(* against the expected types of the table; the handler fails with the     *)
(* type error of the first argument that does not match, naming that       *)
(* expected type, and checks no argument after it.                         *)
(***************************************************************************)
\* the expected types of arguments 1 .. arity - 1
ExpectedTypes ==
    LET owners(n) == [i \in 1..n |-> PrincipalType]
    IN  IF handled.name \in NftOperations
        THEN <<expected_asset_type_of(handled.entered, handled.args)>>
                 \o owners(Arity(handled.name) - 2)
        ELSE IF handled.name = "ft-get-balance" THEN owners(1)
        ELSE <<UIntType>> \o owners(Arity(handled.name) - 2)
Inferred(pos) == handled.args[pos + 1].infers
Mismatched == {pos \in DOMAIN ExpectedTypes : ~admits_type(ExpectedTypes[pos], Inferred(pos))}
TypeChecks == {i \in DOMAIN handled.trace : handled.trace[i].ev = "type_check"}

C13_ArgumentsLeftToRight ==
    (NamedByAtom /\ DeclaredAtCall /\ handled.res # CostBalanceExceeded) =>
        /\ \A i, j \in TypeChecks : i < j => handled.trace[i].pos < handled.trace[j].pos
        /\ \A i \in TypeChecks : handled.trace[i].x = ExpectedTypes[handled.trace[i].pos]
        /\ IF Mismatched = {}
           THEN /\ handled.res.kind = "Ok"
                /\ {handled.trace[i].pos : i \in TypeChecks} = DOMAIN ExpectedTypes
           ELSE LET first == CHOOSE pos \in Mismatched : \A q \in Mismatched : pos <= q
                IN  /\ handled.res = TypeError(ExpectedTypes[first], Inferred(first))
                    /\ {handled.trace[i].pos : i \in TypeChecks} = 1..first

\* nft-transfer? whose asset identifier and owner are both of the wrong type
C13_Witness ==
    /\ handled.name = "nft-transfer?"
    /\ NamedByAtom /\ DeclaredAtCall
    /\ {1, 2} \subseteq Mismatched
    /\ handled.res = TypeError(expected_asset_type_of(handled.entered, handled.args), Inferred(1))

(***************************************************************************)
(* C14.  A successful check makes exactly one metering call: an NFT        *)
(* operation meters the size of the declared identifier type, an FT        *)
(* operation meters 1, whatever the types of the arguments are.            *)
(***************************************************************************)
MeteringCalls == {i \in DOMAIN handled.trace : handled.trace[i].ev = "cost"}
MeteredSize ==
    IF handled.name \in NftOperations
    THEN type_size(expected_asset_type_of(handled.entered, handled.args))
    ELSE 1

C14_OneMeteringCall ==
    (Called /\ handled.res.kind = "Ok") =>
        /\ Cardinality(MeteringCalls) = 1
        /\ \A i \in MeteringCalls : handled.trace[i].x = MeteredSize

\* nft-mint? of an asset whose identifier type has size 2
C14_Witness ==
    /\ handled.name = "nft-mint?"
    /\ handled.res.kind = "Ok"
    /\ MeteredSize = 2
    /\ checker.cost_track.total = handled.entered.cost_track.total + 2

(***************************************************************************)
(* C15.  Metering is cumulative and monotonic: no step lowers the consumed *)
(* cost, and a successful check that is run again with the same declared   *)
(* assets and the same arguments, and succeeds again, has raised the       *)
(* consumed cost by twice the amount the first run raised it.              *)
(***************************************************************************)
SameCheckAgain ==
    /\ Called /\ handled.res.kind = "Ok"
    /\ handled'.name = handled.name
    /\ handled'.args = handled.args
    /\ handled'.entered.contract_context = handled.entered.contract_context
    /\ handled'.entered.cost_track.total = checker.cost_track.total
    /\ handled'.res.kind = "Ok"

C15_MeteringCumulative ==
    [][/\ checker'.cost_track.total >= checker.cost_track.total
       /\ SameCheckAgain =>
              checker'.cost_track.total - handled.entered.cost_track.total
                  = 2 * (checker.cost_track.total - handled.entered.cost_track.total)]_vars

\* ft-get-balance has succeeded a second time: the cost went from 0 to 1 to 2
C15_Witness ==
    /\ handled.name = "ft-get-balance"
    /\ handled.res.kind = "Ok"
    /\ handled.entered.contract_context.fungible_tokens = {handled.args[1].name}
    /\ handled.entered.contract_context.non_fungible_tokens = EmptyMap
    /\ handled.entered.cost_track.total = 1
    /\ checker.cost_track.total = 2

(***************************************************************************)
(* C16.  The handler whose metering call makes the consumed cost exceed    *)
(* the budget returns the failure of the metering call and no result       *)
(* type, and checks no argument after that call; whether a call exceeds    *)
(* the budget is fixed by the cost consumed before it and the size it      *)
(* meters.                                                                 *)
(***************************************************************************)
C16_BudgetExceeded ==
    Called =>
        /\ \A i \in MeteringCalls :
              handled.entered.cost_track.total + handled.trace[i].x
                      > handled.entered.cost_track.limit
                  => /\ handled.res = CostBalanceExceeded
                     /\ i = Len(handled.trace)
        /\ handled.res = CostBalanceExceeded =>
              /\ MeteringCalls # {}
              /\ checker.cost_track.total > checker.cost_track.limit

\* ft-transfer? of well-typed arguments when the budget is already used up
C16_Witness ==
    /\ handled.name = "ft-transfer?"
    /\ NamedByAtom /\ Mismatched = {}
    /\ handled.entered.cost_track.total = handled.entered.cost_track.limit
    /\ handled.res = CostBalanceExceeded
    /\ ~Took("type_check")

(***************************************************************************)
(* Reading the analysis of a sequence of contracts.                        *)
(***************************************************************************)
\* a declaration of the contract under analysis was rejected
DeclarationRejected == pass.name = "TypeChecker"
\* the declaration that was rejected: its kind (ev), the trait and the local name (func)
Declaration == pass.trace[1]
Accepted == pass.name = "PostTypeCheckingTraitChecker" /\ pass.res = Ok
Defined == contract_analysis.defined_traits
Referenced == contract_analysis.referenced_traits

(***************************************************************************)
(* C17.  Trait names are unique within a contract: a define-trait or a     *)
(* use-trait whose name is already defined or imported in the contract is  *)
(* rejected with NameAlreadyUsed, before a trait pass has taken any step,  *)
(* and no declaration replaces an entry of the defined or of the imported  *)
(* traits of the record.                                                   *)
(***************************************************************************)
NamesUnique ==
    /\ DOMAIN Defined \cap DOMAIN Referenced = {}
    /\ DeclarationRejected =>
          /\ Len(pass.trace) = 1
          /\ name_used(contract_analysis, Declaration.func)
                 <=> pass.res = NameAlreadyUsed(Declaration.func)
EntriesKept ==
    contract_analysis'.contract_identifier = contract_analysis.contract_identifier =>
        /\ \A n \in DOMAIN Defined :
              /\ n \in DOMAIN contract_analysis'.defined_traits
              /\ contract_analysis'.defined_traits[n] = Defined[n]
        /\ \A n \in DOMAIN Referenced :
              /\ n \in DOMAIN contract_analysis'.referenced_traits
              /\ contract_analysis'.referenced_traits[n] = Referenced[n]

C17_NameAlreadyUsed == []NamesUnique /\ [][EntriesKept]_vars

\* define-trait of a name the contract has imported
C17_Witness ==
    /\ DeclarationRejected
    /\ Declaration.ev = "define-trait"
    /\ Declaration.func \in DOMAIN Referenced
    /\ pass.res = NameAlreadyUsed(Declaration.func)

(***************************************************************************)
(* C18.  Trait reference cycles are never accepted: the define-trait that  *)
(* closes a cycle within a contract is rejected with CircularReference,    *)
(* and whatever the sequence of contracts declares, neither the record     *)
(* under analysis nor the stored records ever hold a cycle of traits that  *)
(* name each other in their method parameter types.                        *)
(***************************************************************************)
\* the stored records and the record under analysis
Records == insert(analysis_db, contract_analysis.contract_identifier, contract_analysis)
TraitsOf(records) ==
    {TraitIdentifier(c, n) : c \in DOMAIN records, n \in Range(TraitNames)}
\* the pairs (t, u) where a chain of references leads from trait t to trait u
References(records) ==
    UNION {{<<t, u>> : u \in referenced_by(records, t) \cap TraitsOf(records)} :
              t \in TraitsOf(records)}
RECURSIVE Chains(_)
Chains(R) ==
    LET longer == R \cup {<<p[1][1], p[2][2]>> : p \in {q \in R \X R : q[1][2] = q[2][1]}}
    IN  IF longer = R THEN R ELSE Chains(longer)
Acyclic(records) ==
    LET chains == Chains(References(records))
    IN  \A t \in TraitsOf(records) : <<t, t>> \notin chains
\* the records, had the rejected define-trait been added
WithDeclaration ==
    insert(analysis_db, contract_analysis.contract_identifier,
           add_defined_trait(contract_analysis, Declaration.func, pass.declared))

C18_NoCircularReference ==
    /\ Acyclic(analysis_db)
    /\ Acyclic(Records)
    /\ (DeclarationRejected /\ Declaration.ev = "define-trait"
            /\ ~name_used(contract_analysis, Declaration.func)) =>
          /\ ~Acyclic(WithDeclaration)
          /\ pass.res = CircularReference(Declaration.func)
    /\ pass.res.kind = "CircularReference" =>
          DeclarationRejected /\ Declaration.ev = "define-trait"

\* trait-1 names <trait-a> in a parameter, and the trait-a that names <trait-1> is rejected
C18_Witness ==
    /\ DeclarationRejected
    /\ pass.res = CircularReference("trait-a")
    /\ "trait-1" \in DOMAIN Defined
    /\ Defined["trait-1"]["get-1"].args[1] = TraitReferenceType("trait-a")
    /\ pass.declared["get-1"].args[1] = TraitReferenceType("trait-1")

(***************************************************************************)
(* C19.  A contract is accepted only if every contract declaring a trait   *)
(* it implements was stored before its own analysis began: a record is in  *)
(* the database only once its analysis has succeeded, an impl-trait naming *)
(* a contract the database does not hold is rejected with NoSuchContract   *)
(* before a trait pass runs, and so a contract that defines a trait and    *)
(* implements that trait of itself is rejected with NoSuchContract.        *)
(***************************************************************************)
Self == contract_analysis.contract_identifier
StoredBefore == DOMAIN analysis_db \ {Self}
ImplRejected == DeclarationRejected /\ Declaration.ev = "impl-trait"

C19_DeclaringContractStoredBefore ==
    /\ Self \in DOMAIN analysis_db <=> Accepted
    /\ \A t \in Implemented : t.contract_identifier \in StoredBefore
    /\ ImplRejected =>
          /\ Declaration.trait.contract_identifier \notin StoredBefore
          /\ Declaration.trait \notin Implemented
          /\ pass.res = NoSuchContract(Declaration.trait.contract_identifier)
    /\ pass.res.kind = "NoSuchContract" =>
          /\ DeclarationRejected
          /\ Declaration.trait.contract_identifier \notin StoredBefore

\* the contract defines trait-1, has the public get-1, and its impl-trait of its own
\* trait-1 is rejected against the empty database
C19_Witness ==
    /\ analysis_db = EmptyMap
    /\ ImplRejected
    /\ Declaration.trait = TraitIdentifier(Self, "trait-1")
    /\ "trait-1" \in DOMAIN Defined
    /\ "get-1" \in DOMAIN Defined["trait-1"]
    /\ "get-1" \in DOMAIN Public
    /\ pass.res = NoSuchContract(Self)

(***************************************************************************)
(* C20.  Both trait passes terminate with Ok or a failure, also against a  *)
(* database whose stored traits name each other cyclically in their        *)
(* method parameter types: a pass takes each step at most once, and every  *)
(* step is about an implemented trait and, in Phase 2, one of its methods  *)
(* and parameters; the trait a parameter names is resolved to its identity *)
(* and never loaded.                                                       *)
(***************************************************************************)
C20_PassesTerminate ==
    pass.name # "none" =>
        /\ pass.res.kind \in {"Ok", "TraitReferenceUnknown", "BadTraitImplementation"}
        /\ \A i, j \in DOMAIN pass.trace : pass.trace[i] = pass.trace[j] => i = j
        /\ \A i \in DOMAIN pass.trace :
              LET st == pass.trace[i]
              IN  /\ st.trait \in Implemented
                  /\ st.ev \in {"function", "count", "arg", "returns"} =>
                        /\ Resolvable(st.trait)
                        /\ st.func \in DOMAIN Required(st.trait)
                        /\ st.pos \in 0..Len(Required(st.trait)[st.func].args)

\* Phase 2 accepts a parameter typed by a trait of a reference cycle
C20_Witness ==
    /\ Phase2Ran
    /\ pass.res = Ok
    /\ ~Acyclic(analysis_db)
    /\ \E i \in StepsOf("arg") :
          IsTraitReference(ExpectedArg(pass.trace[i])) /\ SameIdentity(pass.trace[i])

(***************************************************************************)
(* Reading the expressions of a parsed contract.                           *)
(***************************************************************************)
Identified == contract_ast.res.kind = "Ok"

\* the ids of a forest: each expression's id, then those of its children, then
\* those of the expressions after it
RECURSIVE PreOrderIds(_)
PreOrderIds(exprs) ==
    IF exprs = <<>> THEN <<>>
    ELSE LET head == Head(exprs)
         IN  <<head.id>>
               \o (IF head.expr.k = "List" THEN PreOrderIds(head.expr.exprs) ELSE <<>>)
               \o PreOrderIds(Tail(exprs))

IsList(e) == e.expr.k = "List"
\* a list at the top level that holds a list
NestedList ==
    \E i \in DOMAIN contract_ast.expressions :
        /\ IsList(contract_ast.expressions[i])
        /\ \E j \in DOMAIN contract_ast.expressions[i].expr.exprs :
              IsList(contract_ast.expressions[i].expr.exprs[j])

(***************************************************************************)
(* C21.  After update_expression_id succeeded, no two expressions of the   *)
(* forest, at the top level or nested, atoms or lists, carry the same id.  *)
(***************************************************************************)
C21_UniqueIds ==
    Identified =>
        LET ids == PreOrderIds(contract_ast.expressions)
        IN  Cardinality(Range(ids)) = Len(ids)

\* the pass succeeded on a forest of MaxNodes expressions with lists two deep
C21_Witness ==
    /\ Identified
    /\ NestedList
    /\ Nodes(contract_ast.expressions) = MaxNodes
    /\ \E i \in DOMAIN contract_ast.expressions : ~IsList(contract_ast.expressions[i])

(***************************************************************************)
(* C29.  update_expression_id numbers the N expressions of a forest in     *)
(* pre-order with the ids 1, 2, ..., N (a list before its children, the    *)
(* children left to right, then the next sibling; an empty list takes one  *)
(* id), whatever ids the expressions held before; running it again on the  *)
(* numbered forest changes nothing.                                        *)
(***************************************************************************)
NumberedInPreOrder ==
    Identified =>
        PreOrderIds(contract_ast.expressions)
            = [i \in 1..Nodes(contract_ast.expressions) |-> u64(i)]
NumberedOnce == Identified => contract_ast' = contract_ast

C29_PreOrder == []NumberedInPreOrder /\ [][NumberedOnce]_vars

\* a numbered forest with an empty list that has a sibling after it, and a
\* list whose children are followed by a sibling
C29_Witness ==
    /\ Identified
    /\ Nodes(contract_ast.expressions) = MaxNodes
    /\ \E i, j \in DOMAIN contract_ast.expressions, m, n \in 1..MaxNodes :
          /\ i < Len(contract_ast.expressions) /\ j < Len(contract_ast.expressions)
          /\ IsList(contract_ast.expressions[i])
          /\ contract_ast.expressions[i].expr.exprs = <<>>
          /\ contract_ast.expressions[i].id = u64(m)
          /\ contract_ast.expressions[i + 1].id = u64(m + 1)
          /\ IsList(contract_ast.expressions[j])
          /\ contract_ast.expressions[j].expr.exprs # <<>>
          /\ contract_ast.expressions[j].id = u64(n)
          /\ contract_ast.expressions[j + 1].id
                 = u64(n + Len(contract_ast.expressions[j].expr.exprs) + 1)

(***************************************************************************)
(* C30.  On a record made by new and filled by add operations, running     *)
(* expressions_iter to exhaustion never indexes a vector outside its       *)
(* length and yields expressions.len() items: item i is                    *)
(* expressions[sorting[i]] when the record has a top-level sorting and     *)
(* expressions[i] when it has none.                                        *)
(***************************************************************************)
C30_IteratorInBounds ==
    /\ iterator.state # "panicked"
    /\ iterator.state = "exhausted" =>
          LET expressions == contract_analysis.expressions
              sorting == contract_analysis.top_level_expression_sorting
          IN  /\ Len(iterator.yielded) = Len(expressions)
              /\ \A i \in DOMAIN iterator.yielded :
                    iterator.yielded[i] =
                        IF sorting.some THEN expressions[sorting.val[i] + 1]
                        ELSE expressions[i]

\* the first call of next on a record of new with expressions, after add
\* operations, indexed the empty sorting
C30_Witness ==
    /\ iterator.state = "panicked"
    /\ iterator.self.index = 0
    /\ iterator.yielded = <<>>
    /\ contract_analysis.expressions # <<>>
    /\ contract_analysis.top_level_expression_sorting = Some(<<>>)
    /\ Entries(contract_analysis) > 0

(***************************************************************************)
(* C22.  When Phase 2 fails with BadTraitImplementation, the pair it names *)
(* is the first failing (trait, method) pair: no implemented trait before  *)
(* it in the sorted order of the identities fails, and no method that the  *)
(* trait declared before the named one fails.  The record keeps a trait's  *)
(* methods in a map that holds no declaration order, so the methods may    *)
(* have been declared in any order.                                        *)
(***************************************************************************)
PositionOf(listing, x) == CHOOSE i \in DOMAIN listing : listing[i] = x
MethodFails(t, m) ==
    check_function(DefiningContract(t), contract_analysis, t, m, Required(t)[m]).res # Ok
TraitFails(t) ==
    ~Resolvable(t) \/ \E m \in DOMAIN Required(t) : MethodFails(t, m)
\* the orders a trait can have declared its methods in
DeclarationOrders(t) ==
    LET names == DOMAIN Required(t)
    IN  {order \in [1..Cardinality(names) -> names] :
            \A i, j \in DOMAIN order : order[i] = order[j] => i = j}
NamedPair == pass.trace[Len(pass.trace)]

C22_FirstFailingInDeclaredOrder ==
    (Phase2Ran /\ pass.res.kind = "BadTraitImplementation") =>
        /\ pass.res = BadImplementationOf(NamedPair)
        /\ \A u \in Implemented :
              PositionOf(TraitIdentifiers, u) < PositionOf(TraitIdentifiers, NamedPair.trait)
                  => ~TraitFails(u)
        /\ \A order \in DeclarationOrders(NamedPair.trait) :
              \A i \in DOMAIN order :
                  i < PositionOf(order, NamedPair.func) => ~MethodFails(NamedPair.trait, order[i])

\* both methods of a trait fail, and Phase 2 names the one whose name sorts first
C22_Witness ==
    /\ Phase2Ran
    /\ pass.res.kind = "BadTraitImplementation"
    /\ DOMAIN Required(NamedPair.trait) = {"get-1", "get-2"}
    /\ MethodFails(NamedPair.trait, "get-1")
    /\ MethodFails(NamedPair.trait, "get-2")
    /\ pass.res.b = "get-1"

(***************************************************************************)
(* C23.  In Phase 2 a trait-typed parameter is resolved through the whole  *)
(* namespace of its contract, the defined traits as well as the imported   *)
(* ones: a required parameter naming a trait that the declaring contract   *)
(* defines itself, matched by a realized parameter that resolves to that   *)
(* same identity, is accepted.                                             *)
(***************************************************************************)
\* the required parameter of the step names a trait its contract defines, and the
\* realized parameter resolves to the same identity
NamesDefinedTrait(st) ==
    /\ IsTraitReference(ExpectedArg(st))
    /\ IsTraitReference(ActualArg(st))
    /\ ExpectedArg(st).name \in DOMAIN DefiningContract(st.trait).defined_traits
    /\ ExpectedArg(st).name \notin DOMAIN DefiningContract(st.trait).referenced_traits
    /\ LET e == WholeIdentity(DefiningContract(st.trait), ExpectedArg(st))
           r == WholeIdentity(contract_analysis, ActualArg(st))
       IN  e.some /\ r.some /\ e.val = r.val
\* the comparison of step i is the one that failed the pass
RejectedAt(i) == i = Len(pass.trace) /\ pass.res # Ok

C23_DefinedTraitResolved ==
    Phase2Ran =>
        \A i \in StepsOf("arg") : NamesDefinedTrait(pass.trace[i]) => ~RejectedAt(i)

\* Phase 2 compared a required parameter naming a trait defined by the declaring
\* contract with a realized parameter importing that trait
C23_Witness ==
    /\ Phase2Ran
    /\ \E i \in StepsOf("arg") :
          /\ NamesDefinedTrait(pass.trace[i])
          /\ Identity(contract_analysis, ActualArg(pass.trace[i]))
                 = Some(TraitIdentifier("defining", "trait-a"))

(***************************************************************************)
(* C24.  A run of Phase 2, successful or not, leaves the record under      *)
(* analysis and every record of the analysis database as they were; the    *)
(* outcome of the pass is its only effect.                                 *)
(***************************************************************************)
Phase2Runs == pass.name = "none" /\ pass'.name = "PostTypeCheckingTraitChecker"
Phase2Frame ==
    Phase2Runs => UNCHANGED <<analysis_db, contract_analysis, assetVars, astVars>>

C24_Phase2ReadOnly == [][Phase2Frame]_vars

\* Phase 2 ran to the end on a record with catalog entries against a database
\* holding the declaring contract, and accepted it
C24_Witness ==
    /\ Phase2Ran
    /\ pass.res = Ok
    /\ Implemented # {}
    /\ \A t \in Implemented : t.contract_identifier \in DOMAIN analysis_db
    /\ DOMAIN Public # {}

(***************************************************************************)
(* C25.  A rejection is permanent while the record is unchanged: when      *)
(* Phase 1 or Phase 2 rejected a record, a later run of the same pass on   *)
(* the unchanged record rejects it again, whatever contracts were stored   *)
(* in the analysis database in between.                                    *)
(***************************************************************************)
RejectedAgain ==
    (/\ pass.name # "none"
     /\ pass.res # Ok
     /\ pass'.name = pass.name
     /\ contract_analysis' = contract_analysis) => pass'.res # Ok

C25_PermanentRejection == [][RejectedAgain]_vars

\* a pass accepts a record that implements a trait of a contract stored only
\* after the pass had run on the record and rejected it
C25_Witness ==
    /\ pass.name # "none"
    /\ pass.res = Ok
    /\ TraitIdentifier("defining", "trait-1") \in Implemented
    /\ "defining" \in DOMAIN analysis_db

(***************************************************************************)
(* C26.  Each of the six handlers counts its arguments first, then matches *)
(* argument 0 as an atom, then does the rest: a call with a wrong number   *)
(* of arguments fails with IncorrectArgumentCount and nothing else is      *)
(* done, whatever argument 0 is; a call with the right number and a        *)
(* non-atom argument 0 fails with BadTokenName before any lookup, metering *)
(* or type check.                                                          *)
(***************************************************************************)
EventsTaken == [i \in DOMAIN handled.trace |-> handled.trace[i].ev]

C26_CountThenAtomThenRest ==
    Called =>
        /\ EventsTaken[1] = "count"
        /\ ~RightCount =>
              /\ handled.res = IncorrectArgumentCount(Arity(handled.name), Len(handled.args))
              /\ EventsTaken = <<"count">>
        /\ RightCount =>
              /\ Len(EventsTaken) >= 2 /\ EventsTaken[2] = "atom"
              /\ \A i \in DOMAIN EventsTaken : i > 2 => EventsTaken[i] \notin {"count", "atom"}
              /\ handled.args[1].k # "Atom" =>
                    handled.res = BadTokenName /\ EventsTaken = <<"count", "atom">>

\* ft-mint? with one argument too many and a literal as argument 0
C26_Witness ==
    /\ handled.name = "ft-mint?"
    /\ Len(handled.args) = 4
    /\ handled.args[1].k # "Atom"
    /\ handled.res = IncorrectArgumentCount(3, 4)

(***************************************************************************)
(* C28.  A handler that rejects because of the name (wrong argument count, *)
(* BadTokenName, NoSuchNFT or NoSuchFT) leaves the consumed cost as it was *)
(* before the call: it made no metering call and type-checked no argument. *)
(***************************************************************************)
RejectedForName ==
    /\ Called
    /\ handled.res.kind \in {"IncorrectArgumentCount", "BadTokenName", "NoSuchNFT", "NoSuchFT"}

C28_NameRejectionCostsNothing ==
    RejectedForName =>
        /\ checker.cost_track = handled.entered.cost_track
        /\ ~Took("cost")
        /\ ~Took("type_check")

\* ft-transfer? of an undeclared token with well-typed arguments: NoSuchFT after
\* the metering call and the three type checks
C28_Witness ==
    /\ handled.name = "ft-transfer?"
    /\ handled.res.kind = "NoSuchFT"
    /\ EventsTaken = <<"count", "atom", "cost", "type_check", "type_check", "type_check", "lookup">>
    /\ checker.cost_track.total = handled.entered.cost_track.total + 1

(***************************************************************************)
(* C27.  In Phase 2 the local names of trait-typed parameters do not       *)
(* decide, the identities they resolve to do: a required and a realized    *)
(* parameter written with different local names that resolve to the same   *)
(* identity are accepted, and two written with the same local name that    *)
(* resolve, each in its own contract, to different identities are          *)
(* rejected with BadTraitImplementation.                                   *)
(***************************************************************************)
BothTraitReferences(st) ==
    IsTraitReference(ExpectedArg(st)) /\ IsTraitReference(ActualArg(st))
SameAlias(st) == ExpectedArg(st).name = ActualArg(st).name
BothResolve(st) ==
    /\ Identity(DefiningContract(st.trait), ExpectedArg(st)).some
    /\ Identity(contract_analysis, ActualArg(st)).some

C27_AliasesDoNotDecide ==
    Phase2Ran =>
        \A i \in StepsOf("arg") :
            LET st == pass.trace[i]
            IN  (BothTraitReferences(st) /\ BothResolve(st)) =>
                    /\ (~SameAlias(st) /\ SameIdentity(st)) => ~RejectedAt(i)
                    /\ (SameAlias(st) /\ ~SameIdentity(st)) =>
                          RejectedAt(i) /\ pass.res = BadImplementationOf(st)

\* the required parameter is <trait-a>, the realized one <trait-1>, both naming
\* trait-a of contract nested, and Phase 2 accepts
C27_Witness ==
    /\ Phase2Ran
    /\ pass.res = Ok
    /\ \E i \in StepsOf("arg") :
          LET st == pass.trace[i]
          IN  /\ BothTraitReferences(st)
              /\ ExpectedArg(st).name = "trait-a"
              /\ ActualArg(st).name = "trait-1"
              /\ Identity(contract_analysis, ActualArg(st))
                     = Some(TraitIdentifier("nested", "trait-a"))
              /\ SameIdentity(st)

====
